---- MODULE Spec2Model ----
(***************************************************************************)
(* State-machine model of the RGB contract runtime: the mound (registry   *)
(* of contracts), the stockpile (stock + pile of one contract), the       *)
(* consignment envelope and stream, and the contract builder.             *)
(*                                                                         *)
(* Identifiers that the code obtains by hashing (ContractId, Opid,        *)
(* AuthToken) are modelled by collision-free encodings of the hashed      *)
(* content.  State data carried by assignments is passed through by the   *)
(* code unchanged and is left out of the stockpile model.                 *)
(***************************************************************************)
EXTENDS Integers, Sequences, FiniteSets, TLC

VARIABLES
    mound,      \* the Mound: consensus, testnet, schemata, contracts
    last,       \* the last call made on the mound and what it returned
    builder,    \* the ContractBuilder
    blast       \* the last call made on the builder and what it returned

vars == <<mound, last, builder, blast>>

----------------------------------------------------------------------------
(* Bounds of the model *)

MaxSeals == 2       \* seals (outpoints) known to the parties
MaxOwned == 2       \* owned assignments of a genesis
MaxContracts == 2   \* contracts hosted by a mound
MaxOps == 2         \* state transitions applied to a contract
MaxWitnesses == 1   \* witnesses stored per operation
MoundMaxOwned == 1  \* owned assignments of a genesis, where several contracts are hosted
MaxOutputs == 1     \* owned assignments of a state transition
MaxAssignments == 2 \* assignments added to a contract builder
MaxInputs == 2      \* inputs registered with a transition builder
MaxValues == 1      \* values of global state, and of metadata, added to a builder

----------------------------------------------------------------------------
(* Domain values *)

ConsensusSet == {"Bitcoin", "Liquid"}

CodexIds == {1, 2}

Seals == 1..MaxSeals

\* SealAuthToken::auth_token: a commitment to the seal
SealAuthToken(seal) == 2 * seal + 1

AuthTokens == {SealAuthToken(s) : s \in Seals}

\* EitherSeal<Seal>: Alt(seal) | Token(auth)
Alt(seal) == [kind |-> "Alt", v |-> seal]
Token(auth) == [kind |-> "Token", v |-> auth]

EitherSeals == {Alt(s) : s \in Seals} \cup {Token(t) : t \in AuthTokens}

\* EitherSeal::auth_token
EitherAuthToken(e) == IF e.kind = "Alt" THEN SealAuthToken(e.v) ELSE e.v

\* EitherSeal::to_explicit, as the list of the Some(..) values (filter_map)
RECURSIVE ExplicitSeals(_)
ExplicitSeals(owned) ==
    IF owned = <<>> THEN <<>>
    ELSE IF Head(owned).kind = "Alt"
         THEN <<Head(owned).v>> \o ExplicitSeals(Tail(owned))
         ELSE ExplicitSeals(Tail(owned))

Range(f) == {f[x] : x \in DOMAIN f}

NoDup(seq) == \A i, j \in DOMAIN seq : i # j => seq[i] # seq[j]

\* sequences over S of length at most n
SeqsUpTo(S, n) == UNION {[1..k -> S] : k \in 0..n}

\* results of calls: Ok, an error value, or an abort (panic); arg is a number, id a contract id
Ok(v) == [kind |-> "Ok", err |-> "", arg |-> v, id |-> <<>>]
OkId(id) == [kind |-> "Ok", err |-> "", arg |-> 0, id |-> id]
Err(e, v) == [kind |-> "Err", err |-> e, arg |-> v, id |-> <<>>]
ErrId(e, id) == [kind |-> "Err", err |-> e, arg |-> 0, id |-> id]
Abort(e) == [kind |-> "Abort", err |-> e, arg |-> 0, id |-> <<>>]

----------------------------------------------------------------------------
(* Identifiers *)

HashBase == 2 * MaxSeals + 2

RECURSIVE HashSeq(_)
HashSeq(s) == IF s = <<>> THEN 1 ELSE HashSeq(SubSeq(s, 1, Len(s) - 1)) * HashBase + s[Len(s)]

ConsensusIdx(c) == IF c = "Bitcoin" THEN 0 ELSE 1

\* the big-endian bytes of a number
RECURSIVE BytesOf(_, _)
BytesOf(n, len) == IF len = 0 THEN <<>> ELSE Append(BytesOf(n \div 256, len - 1), n % 256)

\* The contract id: 32 bytes committing to the codex, the contract meta and the genesis
ContractIdOf(codex_id, consensus, testnet, authTokens) ==
    BytesOf(((HashSeq(authTokens) * 2 + (IF testnet THEN 1 ELSE 0)) * 2
                + ConsensusIdx(consensus)) * 4 + codex_id, 32)

\* An operation; its opid commits to all of its fields
Operation(cid, nonce, ins, outs) == [contract_id |-> cid, nonce |-> nonce, destroying |-> ins, destructible |-> outs]

Opid(op) == <<op.contract_id, op.nonce, op.destroying, op.destructible>>

CellAddr(opid, pos) == [opid |-> opid, pos |-> pos]

----------------------------------------------------------------------------
(* Pile: the keep store (seal definitions) and the witness store *)

EmptyPile == [keep |-> <<>>, wit |-> <<>>]

\* Aora::append on the keep store
KeepAppend(keep, opid, seals) ==
    IF opid \in DOMAIN keep THEN keep ELSE keep @@ (opid :> seals)

\* Pile::append: one more witness under the opid
PileAppend(pile, opid, witness) ==
    [pile EXCEPT !.wit =
        IF opid \in DOMAIN pile.wit
        THEN [pile.wit EXCEPT ![opid] = Append(@, witness)]
        ELSE pile.wit @@ (opid :> <<witness>>)]

\* Aora::read on the keep store taking the entry out of the store
KeepReadTaking(pile, opid) ==
    [pile |-> [pile EXCEPT !.keep = [o \in DOMAIN @ \ {opid} |-> @[o]]],
     seals |-> IF opid \in DOMAIN pile.keep THEN pile.keep[opid] ELSE <<>>]

\* Aora::read on the keep store, reached through keep_mut(): the store stays as it is
KeepRead(pile, opid) ==
    [pile |-> pile, seals |-> IF opid \in DOMAIN pile.keep THEN pile.keep[opid] ELSE <<>>]

\* the pile after the seals of a set of operations were read from the keep store
RECURSIVE ReadKept(_, _)
ReadKept(pile, opids) ==
    IF opids = {} THEN pile
    ELSE ReadKept(KeepRead(pile, CHOOSE o \in opids : TRUE).pile,
                  opids \ {CHOOSE o \in opids : TRUE})

\* Pile::retrieve
PileRetrieve(pile, opid) == IF opid \in DOMAIN pile.wit THEN pile.wit[opid] ELSE <<>>

----------------------------------------------------------------------------
(* Stock: the operation history and the state derived from it *)

\* Schema::issue: the articles of a new contract
SchemaIssue(schema, issueParams) ==
    LET cid == ContractIdOf(schema.codex_id, issueParams.consensus, issueParams.testnet,
                            issueParams.owned)
    IN [codex_id |-> schema.codex_id,
        consensus |-> issueParams.consensus,
        testnet |-> issueParams.testnet,
        contract_id |-> cid,
        genesis |-> Operation(cid, 0, {}, issueParams.owned)]

\* the state an operation adds: its outputs, addressed by position
OutputAuth(op) ==
    [t \in Range(op.destructible) |->
        CellAddr(Opid(op), (CHOOSE i \in DOMAIN op.destructible : op.destructible[i] = t) - 1)]

\* Stock::create
StockCreate(articles) ==
    [articles |-> articles,
     stash |-> <<>>,
     auth |-> OutputAuth(articles.genesis),
     owned |-> Range(OutputAuth(articles.genesis))]

\* Stock::apply: an operation already in the history is not applied again
StockApply(stock, op) ==
    LET spent == op.destroying
        kept == {t \in DOMAIN stock.auth : stock.auth[t] \notin spent}
        new == OutputAuth(op)
    IN IF op = stock.articles.genesis \/ op \in Range(stock.stash) THEN stock
       ELSE [stock EXCEPT
                !.stash = Append(@, op),
                !.auth = [t \in kept \cup DOMAIN new |->
                             IF t \in DOMAIN new THEN new[t] ELSE stock.auth[t]],
                !.owned = (@ \ spent) \cup Range(new)]

----------------------------------------------------------------------------
(* Stockpile *)

\* the names of global and of owned state a schema defines
SchemaGlobalNames(schema) == {"ticker"}
SchemaOwnedNames(schema) == {"asset", "right"}

\* Schema::issue refuses, by aborting, state under a name the schema does not define
SchemaAccepts(schema, issueParams) ==
    /\ Range(issueParams.global) \subseteq SchemaGlobalNames(schema)
    /\ Range(issueParams.names) \subseteq SchemaOwnedNames(schema)

\* Stockpile::issue handing no state names on to Schema::issue
StockpileIssueParamsUnnamed(params) ==
    [consensus |-> params.consensus,
     testnet |-> params.testnet,
     global |-> <<>>,
     names |-> <<>>,
     owned |-> [i \in DOMAIN params.owned |-> EitherAuthToken(params.owned[i])]]

\* Stockpile::issue, the IssueParams made of the CreateParams: the global state and the name
\* of every owned assignment as given, the seal of every owned assignment as its auth token
StockpileIssueParams(params) ==
    [consensus |-> params.consensus,
     testnet |-> params.testnet,
     global |-> params.global,
     names |-> params.names,
     owned |-> [i \in DOMAIN params.owned |-> EitherAuthToken(params.owned[i])]]

\* Stockpile::issue
StockpileIssue(schema, params) ==
    LET seals == ExplicitSeals(params.owned)
        issueParams == StockpileIssueParams(params)
        articles == SchemaIssue(schema, issueParams)
        stock == StockCreate(articles)
    IN [stock |-> stock,
        pile |-> [EmptyPile EXCEPT !.keep = KeepAppend(@, Opid(articles.genesis), seals)]]

\* Stockpile::contract_id
StockpileContractId(sp) == sp.stock.articles.contract_id

----------------------------------------------------------------------------
(* Mound *)

\* Mound::bitcoin_testnet
BitcoinTestnet ==
    [consensus |-> "Bitcoin", testnet |-> TRUE, schemata |-> <<>>, contracts |-> <<>>]

\* Mound::with_testnet leaving the testnet flag unset
WithTestnetUnset(consensus) ==
    [consensus |-> consensus, testnet |-> FALSE, schemata |-> <<>>, contracts |-> <<>>]

\* Mound::with_testnet
WithTestnet(consensus) ==
    [consensus |-> consensus, testnet |-> TRUE, schemata |-> <<>>, contracts |-> <<>>]

\* Mound::open_testnet
OpenTestnet(consensus, schemata, contracts) ==
    [consensus |-> consensus, testnet |-> TRUE, schemata |-> schemata, contracts |-> contracts]

\* Mound::has_contract
HasContract(m, id) == id \in DOMAIN m.contracts

\* BTreeMap::insert
MapInsert(map, k, v) == [x \in DOMAIN map \cup {k} |-> IF x = k THEN v ELSE map[x]]

\* Mound::issue without the lookup of the schema
MoundIssueNoCodexCheck(m, params) ==
    IF params.consensus # m.consensus THEN [m |-> m, res |-> Err("ConsensusMismatch", 0)]
    ELSE IF params.testnet # m.testnet
    THEN [m |-> m, res |-> Err(IF params.testnet THEN "TestnetMismatch" ELSE "MainnetMismatch", 0)]
    ELSE IF ~SchemaAccepts([codex_id |-> params.codex_id], StockpileIssueParams(params))
    THEN [m |-> m, res |-> Abort("unknown state name")]
    ELSE LET stockpile == StockpileIssue([codex_id |-> params.codex_id], params)
             id == StockpileContractId(stockpile)
         IN [m |-> [m EXCEPT !.contracts = MapInsert(@, id, stockpile)], res |-> OkId(id)]

\* Mound::issue comparing the testnet flags before the consensus
MoundIssueTestnetFirst(m, params) ==
    IF params.testnet # m.testnet
    THEN [m |-> m, res |-> Err(IF params.testnet THEN "TestnetMismatch" ELSE "MainnetMismatch", 0)]
    ELSE IF params.consensus # m.consensus THEN [m |-> m, res |-> Err("ConsensusMismatch", 0)]
    ELSE IF params.codex_id \notin DOMAIN m.schemata
    THEN [m |-> m, res |-> Err("UnknownCodex", params.codex_id)]
    ELSE IF ~SchemaAccepts(m.schemata[params.codex_id], StockpileIssueParams(params))
    THEN [m |-> m, res |-> Abort("unknown state name")]
    ELSE LET stockpile == StockpileIssue(m.schemata[params.codex_id], params)
             id == StockpileContractId(stockpile)
         IN [m |-> [m EXCEPT !.contracts = MapInsert(@, id, stockpile)], res |-> OkId(id)]

\* Mound::issue inserting the stockpile under the id of the genesis without its network
MoundIssueKeyedByCodex(m, params) ==
    IF params.consensus # m.consensus THEN [m |-> m, res |-> Err("ConsensusMismatch", 0)]
    ELSE IF params.testnet # m.testnet
    THEN [m |-> m, res |-> Err(IF params.testnet THEN "TestnetMismatch" ELSE "MainnetMismatch", 0)]
    ELSE IF params.codex_id \notin DOMAIN m.schemata
    THEN [m |-> m, res |-> Err("UnknownCodex", params.codex_id)]
    ELSE IF ~SchemaAccepts(m.schemata[params.codex_id], StockpileIssueParams(params))
    THEN [m |-> m, res |-> Abort("unknown state name")]
    ELSE LET stockpile == StockpileIssue(m.schemata[params.codex_id], params)
             id == StockpileContractId(stockpile)
         IN [m |-> [m EXCEPT !.contracts =
                        MapInsert(@, ContractIdOf(params.codex_id, "Bitcoin", FALSE, <<>>),
                                  stockpile)],
             res |-> OkId(id)]

\* Mound::issue; an abort of Stockpile::issue goes through it, before the contract is inserted
MoundIssue(m, params) ==
    IF params.consensus # m.consensus THEN [m |-> m, res |-> Err("ConsensusMismatch", 0)]
    ELSE IF params.testnet # m.testnet
    THEN [m |-> m, res |-> Err(IF params.testnet THEN "TestnetMismatch" ELSE "MainnetMismatch", 0)]
    ELSE IF params.codex_id \notin DOMAIN m.schemata
    THEN [m |-> m, res |-> Err("UnknownCodex", params.codex_id)]
    ELSE IF ~SchemaAccepts(m.schemata[params.codex_id], StockpileIssueParams(params))
    THEN [m |-> m, res |-> Abort("unknown state name")]
    ELSE LET stockpile == StockpileIssue(m.schemata[params.codex_id], params)
             id == StockpileContractId(stockpile)
         IN [m |-> [m EXCEPT !.contracts = MapInsert(@, id, stockpile)], res |-> OkId(id)]

----------------------------------------------------------------------------
(* The consignment stream: the envelope is modelled byte by byte, the      *)
(* payload after it as the sequence of the encoded values (items)          *)

\* MAGIC_BYTES_CONSIGNMENT = b"RGB CONSIGNMENT\0"
MAGIC_BYTES_CONSIGNMENT == <<82, 71, 66, 32, 67, 79, 78, 83, 73, 71, 78, 77, 69, 78, 84, 0>>

\* strict encoding of a ContractId: its 32 bytes
EncodeContractId(id) == id

\* strict encoding of a u16: two bytes, little-endian
EncodeU16(v) == <<v % 256, (v \div 256) % 256>>

Item(t, v) == [t |-> t, v |-> v]

\* a stream: raw bytes followed by encoded items
Stream(bytes, items) == [bytes |-> bytes, items |-> items]

EmptyStream == Stream(<<>>, <<>>)

\* StrictWriter: write raw bytes / one encoded value
WriteBytes(w, bytes) == [w EXCEPT !.bytes = @ \o bytes]
WriteItem(w, item) == [w EXCEPT !.items = Append(@, item)]

\* StrictReader: read n raw bytes; fails with an i/o error at the end of the stream
ReadBytes(r, n) ==
    IF Len(r.bytes) < n
    THEN [ok |-> FALSE, v |-> <<>>, r |-> r]
    ELSE [ok |-> TRUE, v |-> SubSeq(r.bytes, 1, n),
          r |-> [r EXCEPT !.bytes = SubSeq(@, n + 1, Len(@))]]

\* ReservedBytes::<2>::strict_decode: two bytes, which must be zero
ReservedBytesCheck(b) == IF b.ok /\ b.v # <<0, 0>> THEN [b EXCEPT !.ok = FALSE] ELSE b
ReservedBytes2Decode(r) == ReservedBytesCheck(ReadBytes(r, 2))

\* ContractId::strict_decode
ContractIdDecode(r) == ReadBytes(r, 32)

\* strict_decode of one encoded value of type t from the payload:
\*   "eof"     the stream ends before or inside the value (DecodeError::Io, UnexpectedEof)
\*   "invalid" the bytes do not decode as a value of the type
DecodeItem(r, t) ==
    IF r.items = <<>> \/ Head(r.items).t = "partial"
    THEN [st |-> "eof", v |-> <<>>, r |-> [r EXCEPT !.items = <<>>]]
    ELSE IF Head(r.items).t # t
    THEN [st |-> "invalid", v |-> <<>>, r |-> r]
    ELSE [st |-> "ok", v |-> Head(r.items).v, r |-> [r EXCEPT !.items = Tail(@)]]

\* strict_decode of several values in a row, stopping at the first failure
RECURSIVE DecodeAll(_, _)
DecodeAllCons(v, rest) == [rest EXCEPT !.v = IF rest.st = "ok" THEN <<v>> \o @ ELSE <<>>]
DecodeAllStep(d, types) ==
    IF d.st # "ok" THEN [st |-> d.st, v |-> <<>>, r |-> d.r]
    ELSE DecodeAllCons(d.v, DecodeAll(d.r, types))
DecodeAll(r, types) ==
    IF types = <<>> THEN [st |-> "ok", v |-> <<>>, r |-> r]
    ELSE DecodeAllStep(DecodeItem(r, Head(types)), Tail(types))

----------------------------------------------------------------------------
(* Stockpile: state, consign, consume *)

\* Stockpile::open
StockpileOpen(articles) == [stock |-> StockCreate(articles), pile |-> EmptyPile]

\* Stockpile::seal answering from the genesis without asking whether the assignment is live
StockpileSealGenesis(sp, seal) ==
    LET auth == SealAuthToken(seal)
        issued == OutputAuth(sp.stock.articles.genesis)
    IN IF auth \in DOMAIN issued THEN {issued[auth]}
       ELSE IF auth \in DOMAIN sp.stock.auth THEN {sp.stock.auth[auth]} ELSE {}

\* Stockpile::seal
StockpileSeal(sp, seal) ==
    LET auth == SealAuthToken(seal)
    IN IF auth \in DOMAIN sp.stock.auth THEN {sp.stock.auth[auth]} ELSE {}

\* Stockpile::state: every owned assignment joined with keep[addr.opid][addr.pos];
\* aborts when the keep store holds no such entry
StockpileState(sp) ==
    LET Joinable(addr) == /\ addr.opid \in DOMAIN sp.pile.keep
                          /\ addr.pos + 1 <= Len(sp.pile.keep[addr.opid])
    IN IF \A addr \in sp.stock.owned : Joinable(addr)
       THEN [ok |-> TRUE,
             owned |-> [addr \in sp.stock.owned |-> sp.pile.keep[addr.opid][addr.pos + 1]]]
       ELSE [ok |-> FALSE, owned |-> <<>>]

\* Stockpile::attest
StockpileAttest(sp, opid, witness) == [sp EXCEPT !.pile = PileAppend(@, opid, witness)]

\* ContractApi::apply_operation not keeping the seals the operation defines
ApplyOperationUnkept(sp, op, defined_seals) ==
    [stock |-> StockApply(sp.stock, op), pile |-> sp.pile]

\* ContractApi::apply_operation
ApplyOperation(sp, op, defined_seals) ==
    [stock |-> StockApply(sp.stock, op),
     pile |-> [sp.pile EXCEPT !.keep = KeepAppend(@, Opid(op), defined_seals)]]

\* ContractApi::apply_witness not appending to the pile
ApplyWitnessDropped(sp, opid, witness) == sp

\* ContractApi::apply_witness
ApplyWitness(sp, opid, witness) == [sp EXCEPT !.pile = PileAppend(@, opid, witness)]

\* all operations of the history, genesis first, in the order they were applied
History(stock) == <<stock.articles.genesis>> \o stock.stash

KnownOpids(stock) == {Opid(op) : op \in Range(History(stock))}

OpById(stock, opid) == CHOOSE op \in Range(History(stock)) : Opid(op) = opid

\* the operations reachable backwards, through inputs, from a set of opids
RECURSIVE Ancestry(_, _)
Ancestry(stock, opids) ==
    LET parents == UNION {{a.opid : a \in OpById(stock, o).destroying} : o \in opids}
    IN IF parents \subseteq opids THEN opids ELSE Ancestry(stock, opids \cup parents)

\* the opids Stock::export_aux streams for the terminals
ExportSet(stock, terminals) ==
    Ancestry(stock, {Opid(stock.articles.genesis)}
                       \cup {stock.auth[t].opid : t \in terminals \cap DOMAIN stock.auth})

SelectOps(ops, keepSet) == SelectSeq(ops, LAMBDA op : Opid(op) \in keepSet)

\* the operations for the terminals, the latest first and the genesis last
RECURSIVE Reverse(_)
Reverse(seq) == IF seq = <<>> THEN <<>> ELSE Append(Reverse(Tail(seq)), Head(seq))
ExportOrderReversed(stock, terminals) ==
    Reverse(SelectOps(History(stock), ExportSet(stock, terminals)))

\* the order in which Stock::export_aux streams them
ExportOrder(stock, terminals) == SelectOps(History(stock), ExportSet(stock, terminals))

\* the articles header Stock::export_aux writes before the operations
WriteArticles(w, articles) ==
    LET w1 == WriteItem(w, Item("schema", articles.codex_id))
        w2 == WriteItem(w1, Item("sigs", 0))
        w3 == WriteItem(w2, Item("version", 0))
        w4 == WriteItem(w3, Item("meta", <<articles.consensus, articles.testnet>>))
    IN WriteItem(w4, Item("codex", articles.codex_id))

RECURSIVE WriteAll(_, _, _)
WriteAll(w, t, values) ==
    IF values = <<>> THEN w ELSE WriteAll(WriteItem(w, Item(t, Head(values))), t, Tail(values))

\* the closure of Stockpile::consign writing the count of the witnesses without the witnesses
ConsignAuxCountOnly(pile, opid, w) ==
    WriteItem(WriteItem(w, Item("seals", KeepRead(pile, opid).seals)),
              Item("count", Len(PileRetrieve(pile, opid))))

\* the closure Stockpile::consign hands to export_aux: seal definitions, witness count, witnesses
ConsignAux(pile, opid, w) ==
    LET seals == pile.keep[opid]
        w1 == WriteItem(w, Item("seals", seals))
        iter == PileRetrieve(pile, opid)
        w2 == WriteItem(w1, Item("count", Len(iter)))
    IN WriteAll(w2, "wit", iter)

RECURSIVE ConsignOps(_, _, _)
ConsignOps(pile, ops, w) ==
    IF ops = <<>> THEN w
    ELSE ConsignOps(pile, Tail(ops),
                    ConsignAux(pile, Opid(Head(ops)), WriteItem(w, Item("op", Head(ops)))))

\* Stockpile::consign streaming the operations in the reverse order
StockpileConsignReversed(sp, terminals, w) ==
    ConsignOps(sp.pile, ExportOrderReversed(sp.stock, terminals),
               WriteArticles(w, sp.stock.articles))

\* Stockpile::consign
StockpileConsign(sp, terminals, w) ==
    ConsignOps(sp.pile, ExportOrder(sp.stock, terminals), WriteArticles(w, sp.stock.articles))

\* the seal resolver of a receiver owning the seals in wallet: its seals for the cells
\* addressed to it, in the order of the cells
RECURSIVE Resolve(_, _)
Resolve(wallet, cells) ==
    IF cells = <<>> THEN <<>>
    ELSE LET mine == {s \in wallet : SealAuthToken(s) = Head(cells)}
         IN (IF mine = {} THEN <<>> ELSE <<CHOOSE s \in mine : TRUE>>) \o Resolve(wallet, Tail(cells))

\* trace: the values read_operation decoded or tried to, and its calls of the seal resolver,
\* in their order; resolved: the cells the resolver was called with, once for each call
NoOperation(st, r, trace) ==
    [st |-> st, op |-> <<>>, defined_seals |-> <<>>, left |-> 0, r |-> r, trace |-> trace,
     resolved |-> <<>>]

\* OpReader::read_operation, after the resolver was called, on the outcome of decoding the
\* witness count: a failure aborts
ReadOperationCount(op, defined_seals, c) ==
    IF c.st # "ok"
    THEN [NoOperation("panic", c.r, <<"op", "seals", "seal_resolver", "count">>)
             EXCEPT !.resolved = <<op.destructible>>]
    ELSE [st |-> "some", op |-> op, defined_seals |-> defined_seals, left |-> c.v, r |-> c.r,
          trace |-> <<"op", "seals", "seal_resolver", "count">>,
          resolved |-> <<op.destructible>>]

\* OpReader::read_operation extending the seals of the resolver by the defined seals
ReadOperationSealsResolvedFirst(op, s, wallet) ==
    IF s.st # "ok" THEN NoOperation("panic", s.r, <<"op", "seals">>)
    ELSE ReadOperationCount(op, Resolve(wallet, op.destructible) \o s.v,
                            DecodeItem(s.r, "count"))

\* OpReader::read_operation, after the operation was decoded, on the outcome of decoding the
\* defined seals: a failure aborts; the seals are extended by the resolver's
ReadOperationSeals(op, s, wallet) ==
    IF s.st # "ok" THEN NoOperation("panic", s.r, <<"op", "seals">>)
    ELSE ReadOperationCount(op, s.v \o Resolve(wallet, op.destructible),
                            DecodeItem(s.r, "count"))

\* OpReader::read_operation, on the outcome of decoding the operation: the end of the stream
\* ends the reading, any other failure aborts
ReadOperationDecoded(d, wallet) ==
    IF d.st = "eof" THEN NoOperation("none", d.r, <<"op">>)
    ELSE IF d.st = "invalid" THEN NoOperation("panic", d.r, <<"op">>)
    ELSE ReadOperationSeals(d.v, DecodeItem(d.r, "seals"), wallet)

\* OpReader::read_operation
ReadOperation(r, wallet) == ReadOperationDecoded(DecodeItem(r, "op"), wallet)

\* WitnessReader::read_witness, on the outcome of decoding the witness
ReadWitnessDecoded(d, left) ==
    IF d.st = "ok" THEN [st |-> "next", v |-> d.v, left |-> left, r |-> d.r]
    ELSE [st |-> "panic", v |-> 0, left |-> left, r |-> d.r]

\* WitnessReader::read_witness leaving the count of the witnesses left as it was
ReadWitnessKeepingCount(r, left) ==
    IF left = 0 THEN [st |-> "complete", v |-> 0, left |-> 0, r |-> r]
    ELSE ReadWitnessDecoded(DecodeItem(r, "wit"), left)

\* WitnessReader::read_witness handing back to the operation reader one witness early
ReadWitnessOneShort(r, left) ==
    IF left <= 1 THEN [st |-> "complete", v |-> 0, left |-> 0, r |-> r]
    ELSE ReadWitnessDecoded(DecodeItem(r, "wit"), left - 1)

\* WitnessReader::read_witness
ReadWitness(r, left) ==
    IF left = 0 THEN [st |-> "complete", v |-> 0, left |-> 0, r |-> r]
    ELSE ReadWitnessDecoded(DecodeItem(r, "wit"), left - 1)

\* the witnesses of one operation record, each applied as it is read
RECURSIVE Witnesses(_, _, _, _, _)
WitnessesStep(sp, opid, w, calls) ==
    IF w.st = "complete" THEN [st |-> "ok", sp |-> sp, r |-> w.r, calls |-> calls]
    ELSE IF w.st = "panic" THEN [st |-> "panic", sp |-> sp, r |-> w.r, calls |-> calls]
    ELSE Witnesses(ApplyWitness(sp, opid, w.v), opid, w.r, w.left, Append(calls, "apply_witness"))
Witnesses(sp, opid, r, left, calls) == WitnessesStep(sp, opid, ReadWitness(r, left), calls)

\* the verifier's check of one operation against the contract and its memory
VerifyOperation(sp, op, first, left) ==
    IF first THEN op = sp.stock.articles.genesis
    ELSE /\ op.contract_id = StockpileContractId(sp)
         /\ op.destroying # {}
         /\ op.destroying \subseteq sp.stock.owned
         /\ left > 0

\* ContractVerify::evaluate: every operation record is read, verified, its witnesses are
\* read and applied, and the operation is applied
RECURSIVE Evaluate(_, _, _, _, _)
EvaluateWitnessed(ws, o, wallet) ==
    IF ws.st = "panic"
    THEN [sp |-> ws.sp, res |-> Abort("read_witness"), calls |-> ws.calls]
    ELSE Evaluate(ApplyOperation(ws.sp, o.op, o.defined_seals), ws.r, wallet, FALSE,
                  Append(ws.calls, "apply_operation"))
EvaluateOperation(sp, o, wallet, first, calls) ==
    IF o.st = "none" THEN [sp |-> sp, res |-> Ok(0), calls |-> calls]
    ELSE IF o.st = "panic" THEN [sp |-> sp, res |-> Abort("read_operation"), calls |-> calls]
    ELSE IF ~VerifyOperation(sp, o.op, first, o.left)
    THEN [sp |-> sp, res |-> Err("Verify", 0), calls |-> calls]
    ELSE EvaluateWitnessed(Witnesses(sp, Opid(o.op), o.r, o.left, calls), o, wallet)
Evaluate(sp, r, wallet, first, calls) ==
    EvaluateOperation(sp, ReadOperation(r, wallet), wallet, first, calls)

\* Stock::merge_articles: the incoming header must not contradict the stored articles
MergeOk(stock, header) ==
    /\ header[1] = stock.articles.codex_id
    /\ header[5] = stock.articles.codex_id
    /\ header[4] = <<stock.articles.consensus, stock.articles.testnet>>

\* the Articles Stockpile::consume builds for merge_articles: the header values decoded from
\* the stream and the genesis of the stock
ConsumedArticles(header, stock) ==
    [schema |-> header[1], contract_sigs |-> header[2], version |-> header[3],
     meta |-> header[4], codex |-> header[5], genesis |-> stock.articles.genesis]

\* Stockpile::consume, after the evaluation, calling complete_update whatever merge_articles
\* returned
StockpileConsumeMergeThenUpdate(ev, header) ==
    IF ev.res.kind # "Ok"
    THEN [sp |-> ev.sp, res |-> ev.res, calls |-> ev.calls, merged |-> <<>>]
    ELSE [sp |-> ev.sp,
          res |-> IF MergeOk(ev.sp.stock, header) THEN Ok(0) ELSE Err("Merge", 0),
          calls |-> ev.calls \o <<"merge_articles", "complete_update">>,
          merged |-> <<ConsumedArticles(header, ev.sp.stock)>>]

\* Stockpile::consume, after the evaluation: merge_articles, then complete_update; merged
\* holds the articles merge_articles was called with
StockpileConsumeMerge(ev, header) ==
    IF ev.res.kind # "Ok"
    THEN [sp |-> ev.sp, res |-> ev.res, calls |-> ev.calls, merged |-> <<>>]
    ELSE IF ~MergeOk(ev.sp.stock, header)
    THEN [sp |-> ev.sp, res |-> Err("Merge", 0), calls |-> Append(ev.calls, "merge_articles"),
          merged |-> <<ConsumedArticles(header, ev.sp.stock)>>]
    ELSE [sp |-> ev.sp, res |-> Ok(0),
          calls |-> ev.calls \o <<"merge_articles", "complete_update">>,
          merged |-> <<ConsumedArticles(header, ev.sp.stock)>>]

\* Stockpile::consume merging the header without evaluating the operations
StockpileConsumeUnevaluated(sp, h, wallet) ==
    IF h.st # "ok" THEN [sp |-> sp, res |-> Err("Decode", 0), calls |-> <<>>, merged |-> <<>>]
    ELSE StockpileConsumeMerge([sp |-> sp, res |-> Ok(0), calls |-> <<>>], h.v)

\* Stockpile::consume, on the outcome of decoding the articles header
StockpileConsumeArticles(sp, h, wallet) ==
    IF h.st # "ok" THEN [sp |-> sp, res |-> Err("Decode", 0), calls |-> <<>>, merged |-> <<>>]
    ELSE StockpileConsumeMerge(Evaluate(sp, h.r, wallet, TRUE, <<>>), h.v)

\* Stockpile::consume
StockpileConsume(sp, r, wallet) ==
    StockpileConsumeArticles(
        sp, DecodeAll(r, <<"schema", "sigs", "version", "meta", "codex">>), wallet)

----------------------------------------------------------------------------
(* Mound: select, attest, consign, consume *)

\* Mound::select
MoundSelect(m, seal) ==
    UNION {{<<id, addr>> : addr \in StockpileSeal(m.contracts[id], seal)} : id \in DOMAIN m.contracts}

\* Mound::attest for one anchor; contract_mut aborts on an unknown contract
MoundAttest(m, id, opid, witness) ==
    IF ~HasContract(m, id) THEN [m |-> m, res |-> Abort("unknown contract")]
    ELSE [m |-> [m EXCEPT !.contracts[id] = StockpileAttest(@, opid, witness)], res |-> Ok(0)]

\* the envelope Mound::consign writes: magic, version, contract id
Envelope(contract_id) ==
    WriteBytes(WriteBytes(WriteBytes(EmptyStream, MAGIC_BYTES_CONSIGNMENT), EncodeU16(0)),
               EncodeContractId(contract_id))

\* Mound::consign; contract_mut aborts on an unknown contract, after the envelope was written
MoundConsign(m, contract_id, terminals) ==
    LET w == Envelope(contract_id)
    IN IF ~HasContract(m, contract_id)
       THEN [m |-> m, res |-> Abort("unknown contract"), out |-> w]
       ELSE [m |-> m, res |-> Ok(0), out |-> StockpileConsign(m.contracts[contract_id], terminals, w)]

NoTouch(m, res) == [m |-> m, res |-> res, touched |-> {}, calls |-> <<>>, merged |-> <<>>]

\* Mound::consume, the delegation to the stockpile hosted under the id
MoundConsumeInner(m, id, c) ==
    [m |-> [m EXCEPT !.contracts[id] = c.sp], res |-> c.res, touched |-> {id}, calls |-> c.calls,
     merged |-> c.merged]

\* Mound::consume delegating to a hosted stockpile whatever the id in the envelope
MoundConsumeAnyContract(m, contract_id, wallet) ==
    IF ~contract_id.ok THEN NoTouch(m, Err("Decode", 0))
    ELSE IF ~HasContract(m, contract_id.v) THEN NoTouch(m, ErrId("UnknownContract", contract_id.v))
    ELSE MoundConsumeInner(m, CHOOSE id \in DOMAIN m.contracts : TRUE,
                           StockpileConsume(m.contracts[CHOOSE id \in DOMAIN m.contracts : TRUE],
                                            contract_id.r, wallet))

\* Mound::consume reaching contract_mut without asking has_contract
MoundConsumeContractUnchecked(m, contract_id, wallet) ==
    IF ~contract_id.ok THEN NoTouch(m, Err("Decode", 0))
    ELSE IF ~HasContract(m, contract_id.v) THEN NoTouch(m, Abort("unknown contract"))
    ELSE MoundConsumeInner(m, contract_id.v,
                           StockpileConsume(m.contracts[contract_id.v], contract_id.r, wallet))

\* Mound::consume, on the outcome of decoding the contract id
MoundConsumeContract(m, contract_id, wallet) ==
    IF ~contract_id.ok THEN NoTouch(m, Err("Decode", 0))
    ELSE IF ~HasContract(m, contract_id.v) THEN NoTouch(m, ErrId("UnknownContract", contract_id.v))
    ELSE MoundConsumeInner(m, contract_id.v,
                           StockpileConsume(m.contracts[contract_id.v], contract_id.r, wallet))

\* Mound::consume going on to the contract id whatever the two version bytes are
MoundConsumeVersionAny(m, version, wallet) ==
    IF version.v = <<>> THEN NoTouch(m, Err("Decode", 0))
    ELSE MoundConsumeContract(m, ContractIdDecode(version.r), wallet)

\* Mound::consume, on the outcome of decoding the version
MoundConsumeVersion(m, version, wallet) ==
    IF ~version.ok THEN NoTouch(m, Err("Decode", 0))
    ELSE MoundConsumeContract(m, ContractIdDecode(version.r), wallet)

\* Mound::consume without the comparison of the magic bytes
MoundConsumeMagicUnchecked(m, magic_bytes, wallet) ==
    IF ~magic_bytes.ok THEN NoTouch(m, Err("Decode", 0))
    ELSE MoundConsumeVersion(m, ReservedBytes2Decode(magic_bytes.r), wallet)

\* Mound::consume, on the outcome of decoding the magic bytes
MoundConsumeMagic(m, magic_bytes, wallet) ==
    IF ~magic_bytes.ok THEN NoTouch(m, Err("Decode", 0))
    ELSE IF magic_bytes.v # MAGIC_BYTES_CONSIGNMENT THEN NoTouch(m, Err("UnrecognizedMagic", 0))
    ELSE MoundConsumeVersion(m, ReservedBytes2Decode(magic_bytes.r), wallet)

\* Mound::consume
MoundConsume(m, reader, wallet) == MoundConsumeMagic(m, ReadBytes(reader, 16), wallet)

----------------------------------------------------------------------------
(* Inputs *)

OwnedLists(n) == {o \in SeqsUpTo(EitherSeals, n) :
                     NoDup([i \in DOMAIN o |-> EitherAuthToken(o[i])])}

\* parameters without global state, every owned assignment under the name "asset"
CreateParamsSet(n) ==
    {[codex_id |-> c, consensus |-> k, testnet |-> t, owned |-> o,
      global |-> <<>>, names |-> [i \in DOMAIN o |-> "asset"]] :
        c \in CodexIds, k \in ConsensusSet, t \in BOOLEAN, o \in OwnedLists(n)}

GlobalStateNames == {"ticker", "nope"}
OwnedStateNames == {"asset", "right", "nope"}

\* parameters with global state and owned assignments under names the schema defines or not
NamedCreateParamsSet(n) ==
    {p \in [codex_id : CodexIds, consensus : ConsensusSet, testnet : BOOLEAN,
            owned : OwnedLists(n), global : SeqsUpTo(GlobalStateNames, MaxValues),
            names : SeqsUpTo(OwnedStateNames, n)] : Len(p.names) = Len(p.owned)}

\* the id of a mainnet contract
ForeignId == ContractIdOf(1, "Bitcoin", FALSE, <<>>)

\* b"NOT RGB CONSIGNM"
NotRgb == <<78, 79, 84, 32, 82, 71, 66, 32, 67, 79, 78, 83, 73, 71, 78, 77>>

TruncatedAt == {0, 1, 15, 16, 17, 18, 19, 49}

GarbledAt == {1, 16, 17, 18, 19, 50}

\* the payloads the hosted contracts consign, and the empty payload
Payloads(m) ==
    {<<>>} \cup {StockpileConsign(m.contracts[id], terminals, EmptyStream).items :
                    id \in DOMAIN m.contracts,
                    terminals \in {{}, AuthTokens}}

Garble(bytes, at) == [bytes EXCEPT ![at] = IF @ = 1 THEN 2 ELSE 1]

\* streams offered to Mound::consume: well-formed consignments, consignments addressed to
\* another contract, truncated envelopes, envelopes with one byte changed, other data
InputStreams(m) ==
    LET ids == DOMAIN m.contracts \cup {ForeignId}
    IN {Stream(Envelope(id).bytes, items) : id \in ids, items \in Payloads(m)}
       \cup {Stream(SubSeq(Envelope(id).bytes, 1, n), <<>>) : id \in ids, n \in TruncatedAt}
       \cup {Stream(Garble(Envelope(id).bytes, at), items) :
                id \in ids, at \in GarbledAt, items \in Payloads(m)}
       \cup {Stream(NotRgb, <<>>), Stream(SubSeq(NotRgb, 1, 7), <<>>)}

\* the record of a call: what was called, with what, and what came of it
NoResult == [res |-> Ok(0), touched |-> {}, calls |-> <<>>, out |-> EmptyStream,
             peer |-> <<>>, view |-> <<>>, merged |-> <<>>]

Call(op, args, r) == [op |-> op, args |-> args] @@ r @@ NoResult

NoCall == Call("none", <<>>, NoResult)

\* the operations a holder of the contract can add: they spend live assignments and define
\* outputs under auth tokens not in use, each with its seal
LegalOperations(sp) ==
    LET live == sp.stock.owned
    IN {Operation(StockpileContractId(sp), 0, ins, outs) :
            ins \in (SUBSET live) \ {{}},
            outs \in {o \in SeqsUpTo(AuthTokens, MaxOutputs) : o # <<>> /\ NoDup(o)}}

TokensFree(sp, op) ==
    \A t \in Range(op.destructible) :
        t \in DOMAIN sp.stock.auth => sp.stock.auth[t] \in op.destroying

\* the seals behind a list of auth tokens
SealsOf(tokens) == [i \in DOMAIN tokens |-> CHOOSE s \in Seals : SealAuthToken(s) = tokens[i]]

WitnessIds == 1..MaxWitnesses

----------------------------------------------------------------------------
(* The contract builder *)

Layers1 == {"Bitcoin", "Liquid"}

AltLayers1 == {"Liquid"}

\* BuilderSeal<GenesisSeal>: a seal on one of the layers
BuilderSeals == [layer1 : Layers1, seal : Seals]

FieldNames == {"asset", "right", "bogus"}

\* IfaceImpl::assignment_type: the names the implementation binds; 0 is None
IimplAssignmentType(name) == IF name = "asset" THEN 1 ELSE IF name = "right" THEN 2 ELSE 0

AssignmentTypes == {IimplAssignmentType(n) : n \in FieldNames} \ {0}

GlobalNames == {"ticker", "nope"}

\* IfaceImpl::global_type; 0 is None
IimplGlobalType(name) == IF name = "ticker" THEN 1 ELSE 0

MetaNames == {"memo", "nope"}

\* IfaceImpl::meta_type; 0 is None
IimplMetaType(name) == IF name = "memo" THEN 1 ELSE 0

Built == [kind |-> "Ok", err |-> "", arg |-> ""]

BuilderError(e, v) == [kind |-> "Err", err |-> e, arg |-> v]

\* ContractBuilder::with; layers_called records the layers add_layer1 was called with
ContractBuilderWith ==
    [testnet |-> TRUE, alt_layers1 |-> {}, global |-> <<>>, meta |-> <<>>,
     assignments |-> <<>>, layers_called |-> {}, live |-> TRUE]

\* a builder method takes the builder by value: on an error the builder is gone
Failed(b, res) == [b |-> [b EXCEPT !.live = FALSE], res |-> res]

\* ContractBuilder::set_mainnet
SetMainnet(b) == [b |-> [b EXCEPT !.testnet = FALSE], res |-> Built]

\* ContractBuilder::has_layer1 answering yes for every layer
HasLayer1Always(b, layer1) == TRUE

\* ContractBuilder::has_layer1
HasLayer1(b, layer1) ==
    IF layer1 = "Bitcoin" THEN TRUE ELSE "Liquid" \in b.alt_layers1

\* ContractBuilder::check_layer1
CheckLayer1(b, layer1) ==
    IF ~HasLayer1(b, layer1) THEN BuilderError("InvalidLayer1", layer1) ELSE Built

\* ContractBuilder::add_layer1; the set of layers is confined to 255 elements
AddLayer1(b, layer1) ==
    IF layer1 \notin b.alt_layers1 /\ Cardinality(b.alt_layers1) >= 255
    THEN Failed(b, BuilderError("TooManyLayers1", ""))
    ELSE [b |-> [b EXCEPT !.alt_layers1 = @ \cup {layer1},
                          !.layers_called = @ \cup {layer1}],
          res |-> Built]

\* OperationBuilder::assignments_type finding a type for every name
AssignmentsTypeAny(name) == [ok |-> TRUE, v |-> 1, res |-> Built]

\* OperationBuilder::assignments_type
AssignmentsType(name) ==
    IF IimplAssignmentType(name) = 0
    THEN [ok |-> FALSE, v |-> 0, res |-> BuilderError("AssignmentNotFound", name)]
    ELSE [ok |-> TRUE, v |-> IimplAssignmentType(name), res |-> Built]

\* OperationBuilder::add_owned_state_raw putting the assignment before those of its type
OperationAddOwnedStateRawFront(assignments, type_id, seal, state) ==
    IF type_id \notin DOMAIN assignments
    THEN assignments @@ (type_id :> <<[seal |-> seal, state |-> state]>>)
    ELSE [assignments EXCEPT ![type_id] = <<[seal |-> seal, state |-> state]>> \o @]

\* OperationBuilder::add_owned_state_raw: the assignment is put under its type
OperationAddOwnedStateRaw(assignments, type_id, seal, state) ==
    IF type_id \notin DOMAIN assignments
    THEN assignments @@ (type_id :> <<[seal |-> seal, state |-> state]>>)
    ELSE [assignments EXCEPT ![type_id] = Append(@, [seal |-> seal, state |-> state])]

\* a builder method delegating to OperationBuilder::add_owned_state_raw
Delegate(b, type_id, seal, state) ==
    [b |-> [b EXCEPT !.assignments = OperationAddOwnedStateRaw(@, type_id, seal, state)],
     res |-> Built]

\* OperationBuilder::add_rights
OperationAddRights(b, name, seal, attach) ==
    IF ~AssignmentsType(name).ok THEN Failed(b, AssignmentsType(name).res)
    ELSE Delegate(b, AssignmentsType(name).v, seal, [data |-> "void", attach |-> attach])

\* OperationBuilder::add_owned_state; valid: the value is of the type the schema asks for
OperationAddOwnedState(b, name, seal, valid, attach) ==
    IF ~AssignmentsType(name).ok THEN Failed(b, AssignmentsType(name).res)
    ELSE IF ~valid THEN Failed(b, BuilderError("Typify", ""))
    ELSE Delegate(b, AssignmentsType(name).v, seal, [data |-> "typed", attach |-> attach])

\* OperationBuilder::serialize_owned_state; valid: the value can be serialized
OperationSerializeOwnedState(b, name, seal, valid, attach) ==
    IF ~AssignmentsType(name).ok THEN Failed(b, AssignmentsType(name).res)
    ELSE IF ~valid THEN Failed(b, BuilderError("StrictEncode", ""))
    ELSE Delegate(b, AssignmentsType(name).v, seal, [data |-> "serialized", attach |-> attach])

\* OperationBuilder::meta_type
MetaType(name) ==
    IF IimplMetaType(name) = 0
    THEN [ok |-> FALSE, v |-> 0, res |-> BuilderError("MetadataNotFound", name)]
    ELSE [ok |-> TRUE, v |-> IimplMetaType(name), res |-> Built]

\* OperationBuilder::global_type
GlobalType(name) ==
    IF IimplGlobalType(name) = 0
    THEN [ok |-> FALSE, v |-> 0, res |-> BuilderError("GlobalNotFound", name)]
    ELSE [ok |-> TRUE, v |-> IimplGlobalType(name), res |-> Built]

\* Metadata::add_value, GlobalState::add_state: the serialized value is appended under its type
AddValue(values, type_id, data) ==
    IF type_id \notin DOMAIN values THEN values @@ (type_id :> <<data>>)
    ELSE [values EXCEPT ![type_id] = Append(@, data)]

\* OperationBuilder::add_metadata; valid: the value is of the type the schema asks for
OperationAddMetadata(b, name, valid) ==
    IF ~MetaType(name).ok THEN Failed(b, MetaType(name).res)
    ELSE IF ~valid THEN Failed(b, BuilderError("Typify", ""))
    ELSE [b |-> [b EXCEPT !.meta = AddValue(@, MetaType(name).v, "data")], res |-> Built]

\* OperationBuilder::serialize_metadata; valid: the value can be serialized
OperationSerializeMetadata(b, name, valid) ==
    IF ~MetaType(name).ok THEN Failed(b, MetaType(name).res)
    ELSE IF ~valid THEN Failed(b, BuilderError("StrictEncode", ""))
    ELSE [b |-> [b EXCEPT !.meta = AddValue(@, MetaType(name).v, "data")], res |-> Built]

\* OperationBuilder::add_global_state
OperationAddGlobalState(b, name, valid) ==
    IF ~GlobalType(name).ok THEN Failed(b, GlobalType(name).res)
    ELSE IF ~valid THEN Failed(b, BuilderError("Typify", ""))
    ELSE [b |-> [b EXCEPT !.global = AddValue(@, GlobalType(name).v, "data")], res |-> Built]

\* OperationBuilder::serialize_global_state
OperationSerializeGlobalState(b, name, valid) ==
    IF ~GlobalType(name).ok THEN Failed(b, GlobalType(name).res)
    ELSE IF ~valid THEN Failed(b, BuilderError("StrictEncode", ""))
    ELSE [b |-> [b EXCEPT !.global = AddValue(@, GlobalType(name).v, "data")],
          res |-> Built]

\* ContractBuilder::add_metadata, serialize_metadata, add_global_state, serialize_global_state
AddMetadata(b, name, valid) == OperationAddMetadata(b, name, valid)
SerializeMetadata(b, name, valid) == OperationSerializeMetadata(b, name, valid)
AddGlobalState(b, name, valid) == OperationAddGlobalState(b, name, valid)
SerializeGlobalState(b, name, valid) == OperationSerializeGlobalState(b, name, valid)

\* the number of values held under all types
RECURSIVE Held(_)
Held(values) ==
    IF DOMAIN values = {} THEN 0
    ELSE LET t == CHOOSE t \in DOMAIN values : TRUE
         IN Len(values[t]) + Held([u \in DOMAIN values \ {t} |-> values[u]])

\* ContractBuilder::add_owned_state_raw
AddOwnedStateRaw(b, type_id, seal, state) ==
    IF CheckLayer1(b, seal.layer1).kind # "Ok" THEN Failed(b, CheckLayer1(b, seal.layer1))
    ELSE Delegate(b, type_id, seal, state)

\* ContractBuilder::add_rights
AddRights(b, name, seal, attach) == OperationAddRights(b, name, seal, attach)

\* ContractBuilder::add_owned_state
AddOwnedState(b, name, seal, valid, attach) ==
    IF CheckLayer1(b, seal.layer1).kind # "Ok" THEN Failed(b, CheckLayer1(b, seal.layer1))
    ELSE OperationAddOwnedState(b, name, seal, valid, attach)

\* ContractBuilder::serialize_owned_state
SerializeOwnedState(b, name, seal, valid, attach) ==
    IF CheckLayer1(b, seal.layer1).kind # "Ok" THEN Failed(b, CheckLayer1(b, seal.layer1))
    ELSE OperationSerializeOwnedState(b, name, seal, valid, attach)

\* the number of assignments a builder holds
Assigned(b) == LET RECURSIVE Sum(_)
                   Sum(types) == IF types = {} THEN 0
                                 ELSE LET t == CHOOSE t \in types : TRUE
                                      IN Len(b.assignments[t]) + Sum(types \ {t})
               IN Sum(DOMAIN b.assignments)

\* the record of a call on the builder
NoArgs == [name |-> "", type_id |-> 0, seal |-> [layer1 |-> "Bitcoin", seal |-> 0],
           valid |-> TRUE, attach |-> FALSE, layer1 |-> ""]

BuilderCall(op, args, res) == [op |-> op, res |-> res] @@ args @@ NoArgs

NoBuilderCall == BuilderCall("with", NoArgs, Built)

----------------------------------------------------------------------------
(* The transition builder and its state calculator *)

\* the values of fungible state used as inputs and asked for as outputs
Amounts == {400, 600, 1000}

\* previous outputs that a transition can spend: the assignment type and the output number
Opouts == [ty : AssignmentTypes, no : 0..MaxOutputs]

\* BuilderSeal<GraphSeal>
GraphSeals == {s \in BuilderSeals : s.layer1 = "Bitcoin"}

Amount(value) == [data |-> value, attach |-> FALSE]

\* StateCalc::new: nothing consumed yet
StateCalcNew == [t \in AssignmentTypes |-> 0]

\* StateCalc::reg_input: the consumed state is added to the accumulator of the type
RegInput(calc, type_id, value) == [calc EXCEPT ![type_id] = @ + value]

\* StateCalc::calc_output: the output asked for is split against the accumulator;
\* insufficient = 0 is None
CalcOutput(calc, type_id, value) ==
    IF value <= calc[type_id]
    THEN [calc |-> [calc EXCEPT ![type_id] = @ - value], sufficient |-> value, insufficient |-> 0]
    ELSE [calc |-> [calc EXCEPT ![type_id] = 0],
          sufficient |-> calc[type_id], insufficient |-> value - calc[type_id]]

\* StateCalc::calc_change: what is left of the accumulator; change = 0 is None
CalcChange(calc, type_id) ==
    [calc |-> [calc EXCEPT ![type_id] = 0], change |-> calc[type_id]]

\* a u64 as four limbs of 16 bits, the most significant first
U64Max == <<2^16 - 1, 2^16 - 1, 2^16 - 1, 2^16 - 1>>

\* the nonces set_nonce is called with
Nonces == {<<0, 0, 0, 0>>, <<0, 0, 0, 7>>, U64Max}

\* the contracts a transition is built for
BuilderContractIds == {1, 2}

\* TransitionType::BLANK
TransitionTypeBlank == 2^16 - 1

TransitionNames == {"transfer", "burn", "nope"}

\* IfaceImpl::transition_type: the operations the implementation binds; 0 is None
IimplTransitionType(name) == IF name = "transfer" THEN 1 ELSE IF name = "burn" THEN 2 ELSE 0

\* Iface: default_operation is "" when the interface names none; an interface can name an
\* operation its implementation does not bind
Ifaces == [default_operation : {""} \cup TransitionNames]

\* TransitionBuilder::with; has_calc: calc is Some; registered records the values
\* add_input was called with, per type, passed the opouts it was called with and added the
\* number of its calls
TransitionBuilderWith(contract_id, transition_type, has_calc) ==
    [contract_id |-> contract_id, transition_type |-> transition_type, nonce |-> U64Max,
     global |-> <<>>, meta |-> <<>>,
     assignments |-> <<>>, inputs |-> <<>>, has_calc |-> has_calc, calc |-> StateCalcNew,
     registered |-> StateCalcNew, passed |-> {}, added |-> 0, live |-> TRUE]

\* the value a constructor or a method of the transition builder returns
BuilderReturned(b, res) == [b |-> b, res |-> res, insufficient |-> 0]

\* no builder is returned
NoTransitionBuilder ==
    [TransitionBuilderWith(0, TransitionTypeBlank, FALSE) EXCEPT !.live = FALSE]

\* TransitionBuilder::blank_transition handing a calculator to the builder
NewBlankTransitionCalc(contract_id) ==
    BuilderReturned(TransitionBuilderWith(contract_id, TransitionTypeBlank, TRUE), Built)

\* TransitionBuilder::blank_transition
NewBlankTransition(contract_id) ==
    BuilderReturned(TransitionBuilderWith(contract_id, TransitionTypeBlank, FALSE), Built)

\* TransitionBuilder::default_transition taking the first operation the implementation binds
\* when the default operation of the interface is not bound
NewDefaultTransitionAnyBound(contract_id, iface) ==
    IF iface.default_operation = ""
    THEN BuilderReturned(NoTransitionBuilder, BuilderError("NoOperationSubtype", ""))
    ELSE BuilderReturned(TransitionBuilderWith(
                      contract_id,
                      IF IimplTransitionType(iface.default_operation) = 0 THEN 1
                      ELSE IimplTransitionType(iface.default_operation),
                      TRUE),
                  Built)

\* TransitionBuilder::default_transition
NewDefaultTransition(contract_id, iface) ==
    IF iface.default_operation = "" \/ IimplTransitionType(iface.default_operation) = 0
    THEN BuilderReturned(NoTransitionBuilder, BuilderError("NoOperationSubtype", ""))
    ELSE BuilderReturned(TransitionBuilderWith(contract_id,
                                        IimplTransitionType(iface.default_operation), TRUE),
                  Built)

\* TransitionBuilder::named_transition
NewNamedTransition(contract_id, transition_name) ==
    IF IimplTransitionType(transition_name) = 0
    THEN BuilderReturned(NoTransitionBuilder, BuilderError("TransitionNotFound", transition_name))
    ELSE BuilderReturned(TransitionBuilderWith(contract_id, IimplTransitionType(transition_name),
                                        TRUE),
                  Built)

\* TransitionBuilder::set_nonce
SetNonce(b, nonce) == BuilderReturned([b EXCEPT !.nonce = nonce], Built)

\* a call of the state calculator returned a StateCalcError: the builder, taken by value, is
\* gone and nothing was written
CalcFailed(b) ==
    [b |-> [b EXCEPT !.live = FALSE], res |-> BuilderError("Calc", ""), insufficient |-> 0]

\* TransitionBuilder::add_input; fails: the calculator, when there is one, returns an error
AddInput(b, opout, value, fails) ==
    IF b.has_calc /\ fails THEN CalcFailed(b) ELSE
    [b |-> [b EXCEPT !.calc = IF b.has_calc THEN RegInput(@, opout.ty, value) ELSE @,
                     !.registered = RegInput(@, opout.ty, value),
                     !.passed = @ \cup {opout},
                     !.added = @ + 1,
                     !.inputs = MapInsert(@, opout, value)],
     res |-> Built, insufficient |-> 0]

\* TransitionBuilder::fulfill_owned_state writing the state asked for
FulfillOwnedStateRequested(b, type_id, seal, value, fails) ==
    IF ~b.has_calc THEN [b |-> [b EXCEPT !.live = FALSE], res |-> Abort("no calc"), insufficient |-> 0]
    ELSE IF fails THEN CalcFailed(b)
    ELSE [b |-> [b EXCEPT !.calc = CalcOutput(b.calc, type_id, value).calc,
                          !.assignments = OperationAddOwnedStateRaw(@, type_id, seal, Amount(value))],
          res |-> Built,
          insufficient |-> CalcOutput(b.calc, type_id, value).insufficient]

\* TransitionBuilder::fulfill_owned_state writing nothing when the state asked for is not
\* covered in full
FulfillOwnedStateCovered(b, type_id, seal, value, fails) ==
    IF ~b.has_calc THEN [b |-> [b EXCEPT !.live = FALSE], res |-> Abort("no calc"), insufficient |-> 0]
    ELSE IF fails THEN CalcFailed(b)
    ELSE [b |-> [b EXCEPT !.calc = CalcOutput(b.calc, type_id, value).calc,
                          !.assignments =
                              IF CalcOutput(b.calc, type_id, value).insufficient # 0 THEN @
                              ELSE OperationAddOwnedStateRaw(
                                       @, type_id, seal,
                                       Amount(CalcOutput(b.calc, type_id, value).sufficient))],
          res |-> Built,
          insufficient |-> CalcOutput(b.calc, type_id, value).insufficient]

\* TransitionBuilder::fulfill_owned_state; without a calculator the call aborts; fails: the
\* calculator returns an error
FulfillOwnedState(b, type_id, seal, value, fails) ==
    IF ~b.has_calc THEN [b |-> [b EXCEPT !.live = FALSE], res |-> Abort("no calc"), insufficient |-> 0]
    ELSE IF fails THEN CalcFailed(b)
    ELSE [b |-> [b EXCEPT !.calc = CalcOutput(b.calc, type_id, value).calc,
                          !.assignments =
                              OperationAddOwnedStateRaw(
                                  @, type_id, seal,
                                  Amount(CalcOutput(b.calc, type_id, value).sufficient))],
          res |-> Built,
          insufficient |-> CalcOutput(b.calc, type_id, value).insufficient]

\* TransitionBuilder::add_owned_state_change; without a calculator the call aborts; fails:
\* the calculator returns an error
AddOwnedStateChange(b, type_id, seal, fails) ==
    IF ~b.has_calc THEN [b |-> [b EXCEPT !.live = FALSE], res |-> Abort("no calc"), insufficient |-> 0]
    ELSE IF fails THEN CalcFailed(b)
    ELSE [b |-> [b EXCEPT !.calc = CalcChange(b.calc, type_id).calc,
                          !.assignments =
                              IF CalcChange(b.calc, type_id).change # 0
                              THEN OperationAddOwnedStateRaw(
                                       @, type_id, seal, Amount(CalcChange(b.calc, type_id).change))
                              ELSE @],
          res |-> Built, insufficient |-> 0]

\* a method of the operation builder called through the transition builder
Through(r) == [b |-> r.b, res |-> r.res, insufficient |-> 0]

\* TransitionBuilder::add_metadata, serialize_metadata, add_global_state,
\* serialize_global_state
TransitionAddMetadata(b, name, valid) == Through(OperationAddMetadata(b, name, valid))
TransitionSerializeMetadata(b, name, valid) ==
    Through(OperationSerializeMetadata(b, name, valid))
TransitionAddGlobalState(b, name, valid) == Through(OperationAddGlobalState(b, name, valid))
TransitionSerializeGlobalState(b, name, valid) ==
    Through(OperationSerializeGlobalState(b, name, valid))

\* TransitionBuilder::add_owned_state_blank: the state is written as given, with or without
\* a calculator
AddOwnedStateBlank(b, type_id, seal, state) == Through(Delegate(b, type_id, seal, state))

\* TransitionBuilder::add_rights
TransitionAddRights(b, name, seal, attach) == Through(OperationAddRights(b, name, seal, attach))

\* Transition: what complete_transition returns
NoTransition ==
    [contract_id |-> 0, nonce |-> <<>>, transition_type |-> 0, metadata |-> <<>>,
     globals |-> <<>>, inputs |-> {}, assignments |-> <<>>, valencies |-> {},
     witness |-> <<>>, validator |-> <<>>]

\* TransitionBuilder::complete_transition handing on the metadata
CompleteTransitionWithMeta(b) ==
    [b |-> [b EXCEPT !.live = FALSE], res |-> Built, insufficient |-> 0,
     transition |-> [contract_id |-> b.contract_id, nonce |-> b.nonce,
                     transition_type |-> b.transition_type, metadata |-> b.meta,
                     globals |-> b.global, inputs |-> DOMAIN b.inputs,
                     assignments |-> b.assignments, valencies |-> {},
                     witness |-> <<>>, validator |-> <<>>]]

\* TransitionBuilder::complete_transition: the builder is consumed
CompleteTransition(b) ==
    [b |-> [b EXCEPT !.live = FALSE], res |-> Built, insufficient |-> 0,
     transition |-> [contract_id |-> b.contract_id, nonce |-> b.nonce,
                     transition_type |-> b.transition_type, metadata |-> <<>>,
                     globals |-> b.global, inputs |-> DOMAIN b.inputs,
                     assignments |-> b.assignments, valencies |-> {},
                     witness |-> <<>>, validator |-> <<>>]]

\* the record of a call on the transition builder
TransitionCall(op, args, r) ==
    [op |-> op, res |-> r.res, insufficient |-> r.insufficient] @@ args
    @@ [type_id |-> 0, seal |-> [layer1 |-> "Bitcoin", seal |-> 0], value |-> 0,
        opout |-> [ty |-> 0, no |-> 0], fails |-> FALSE, name |-> "", valid |-> TRUE,
        contract_id |-> 0, iface |-> [default_operation |-> ""], nonce |-> <<>>,
        transition |-> NoTransition]

----------------------------------------------------------------------------
(* The mound as a state machine *)

InitBuilder == builder = ContractBuilderWith /\ blast = NoBuilderCall

InitMound ==
    /\ \E consensus \in ConsensusSet, codexes \in {{}, {1}} :
          mound = OpenTestnet(consensus, [c \in codexes |-> [codex_id |-> c]], <<>>)
    /\ last = NoCall
    /\ InitBuilder

IssueFrom(paramsSet, maxContracts) ==
    \E params \in paramsSet :
        LET r == MoundIssue(mound, params)
        IN /\ Cardinality(DOMAIN r.m.contracts) <= maxContracts
           /\ mound' = r.m
           /\ last' = Call("issue", params, [res |-> r.res])
           /\ UNCHANGED <<builder, blast>>

Issue == IssueFrom(CreateParamsSet(MoundMaxOwned), MaxContracts)

Consign ==
    \E contract_id \in DOMAIN mound.contracts \cup {ForeignId}, terminals \in SUBSET AuthTokens :
        LET r == MoundConsign(mound, contract_id, terminals)
        IN /\ mound' = r.m
           /\ last' = Call("consign", [contract_id |-> contract_id, terminals |-> terminals],
                           [res |-> r.res, out |-> r.out])
           /\ UNCHANGED <<builder, blast>>

ConsumeFrom(streams, wallets) ==
    \E stream \in streams, wallet \in wallets :
        LET r == MoundConsume(mound, stream, wallet)
        IN /\ mound' = r.m
           /\ last' = Call("consume", [stream |-> stream, wallet |-> wallet],
                           [res |-> r.res, touched |-> r.touched, calls |-> r.calls])
           /\ UNCHANGED <<builder, blast>>

Consume == ConsumeFrom(InputStreams(mound), {{}, Seals})

NextMound == Issue \/ Consign \/ Consume

SpecMound == InitMound /\ [][NextMound]_vars

----------------------------------------------------------------------------
(* One contract and its history as a state machine *)

InitStock ==
    /\ mound = OpenTestnet("Bitcoin", [c \in {1} |-> [codex_id |-> c]], <<>>)
    /\ last = NoCall
    /\ InitBuilder

IssueOne ==
    /\ DOMAIN mound.contracts = {}
    /\ IssueFrom({p \in CreateParamsSet(MaxOwned) :
                     p.codex_id = 1 /\ p.consensus = "Bitcoin" /\ p.testnet}, 1)

\* ContractApi::apply_operation, called with a legal operation and its seals
ApplyOperationCall ==
    \E id \in DOMAIN mound.contracts :
        \E op \in LegalOperations(mound.contracts[id]) :
            /\ Len(mound.contracts[id].stock.stash) < MaxOps
            /\ TokensFree(mound.contracts[id], op)
            /\ Opid(op) \notin KnownOpids(mound.contracts[id].stock)
            /\ mound' = [mound EXCEPT !.contracts[id] =
                              ApplyOperation(@, op, SealsOf(op.destructible))]
            /\ last' = Call("apply_operation", [contract_id |-> id, op |-> op], NoResult)
            /\ UNCHANGED <<builder, blast>>

\* Mound::attest with one anchor
Attest ==
    \E id \in DOMAIN mound.contracts, witness \in WitnessIds :
        \E opid \in {Opid(op) : op \in Range(mound.contracts[id].stock.stash)} :
            LET r == MoundAttest(mound, id, opid, witness)
            IN /\ Len(PileRetrieve(mound.contracts[id].pile, opid)) < MaxWitnesses
               /\ mound' = r.m
               /\ last' = Call("attest", [contract_id |-> id, opid |-> opid, witness |-> witness],
                               [res |-> r.res])
               /\ UNCHANGED <<builder, blast>>

\* Stockpile::state
State ==
    \E id \in DOMAIN mound.contracts :
        LET view == StockpileState(mound.contracts[id])
        IN /\ mound' = mound
           /\ last' = Call("state", [contract_id |-> id],
                           [res |-> IF view.ok THEN Ok(0) ELSE Abort("index out of bounds"),
                            view |-> view.owned])
           /\ UNCHANGED <<builder, blast>>

\* a mound seeded only with the articles of one contract
Seeded(m, id) ==
    OpenTestnet(m.consensus, m.schemata, id :> StockpileOpen(m.contracts[id].stock.articles))

\* Mound::consign, and Mound::consume of the stream by a mound seeded with the articles
Transfer ==
    \E id \in DOMAIN mound.contracts, terminals \in (SUBSET AuthTokens) \ {{}},
       wallet \in {{}, Seals} :
        LET sent == MoundConsign(mound, id, terminals)
            got == MoundConsume(Seeded(mound, id), sent.out, wallet)
        IN /\ terminals \subseteq DOMAIN mound.contracts[id].stock.auth
           /\ mound' = sent.m
           /\ last' = Call("transfer",
                           [contract_id |-> id, terminals |-> terminals, wallet |-> wallet],
                           [res |-> got.res, out |-> sent.out, peer |-> got.m,
                            touched |-> got.touched, calls |-> got.calls])
           /\ UNCHANGED <<builder, blast>>

NextStock == IssueOne \/ ApplyOperationCall \/ Attest \/ State \/ Consign \/ Transfer

SpecStock == InitStock /\ [][NextStock]_vars

----------------------------------------------------------------------------
(* The contract builder as a state machine *)

InitContractBuilder ==
    /\ mound = OpenTestnet("Bitcoin", <<>>, <<>>)
    /\ last = NoCall
    /\ InitBuilder

\* the call returned r
Returned(op, args, r) ==
    /\ builder' = r.b
    /\ blast' = BuilderCall(op, args, r.res)
    /\ UNCHANGED <<mound, last>>

\* ContractBuilder::with: a new builder replaces the one in hand
With ==
    /\ builder # ContractBuilderWith
    /\ Returned("with", NoArgs, [b |-> ContractBuilderWith, res |-> Built])

SetMainnetCall ==
    /\ builder.live
    /\ Returned("set_mainnet", NoArgs, SetMainnet(builder))

AddLayer1Call ==
    /\ builder.live
    /\ \E layer1 \in AltLayers1 :
          Returned("add_layer1", [layer1 |-> layer1], AddLayer1(builder, layer1))

AddOwnedStateRawCall ==
    /\ builder.live
    /\ Assigned(builder) < MaxAssignments
    /\ \E type_id \in AssignmentTypes, seal \in BuilderSeals :
          Returned("add_owned_state_raw", [type_id |-> type_id, seal |-> seal],
                   AddOwnedStateRaw(builder, type_id, seal, [data |-> "raw", attach |-> FALSE]))

AddRightsCall ==
    /\ builder.live
    /\ Assigned(builder) < MaxAssignments
    /\ \E name \in FieldNames, seal \in BuilderSeals, attach \in BOOLEAN :
          Returned("add_rights", [name |-> name, seal |-> seal, attach |-> attach],
                   AddRights(builder, name, seal, attach))

AddOwnedStateCall ==
    /\ builder.live
    /\ Assigned(builder) < MaxAssignments
    /\ \E name \in FieldNames, seal \in BuilderSeals, valid \in BOOLEAN, attach \in BOOLEAN :
          Returned("add_owned_state",
                   [name |-> name, seal |-> seal, valid |-> valid, attach |-> attach],
                   AddOwnedState(builder, name, seal, valid, attach))

SerializeOwnedStateCall ==
    /\ builder.live
    /\ Assigned(builder) < MaxAssignments
    /\ \E name \in FieldNames, seal \in BuilderSeals, valid \in BOOLEAN, attach \in BOOLEAN :
          Returned("serialize_owned_state",
                   [name |-> name, seal |-> seal, valid |-> valid, attach |-> attach],
                   SerializeOwnedState(builder, name, seal, valid, attach))

AddMetadataCall ==
    /\ builder.live
    /\ Held(builder.meta) < MaxValues
    /\ \E name \in MetaNames, valid \in BOOLEAN :
          Returned("add_metadata", [name |-> name, valid |-> valid],
                   AddMetadata(builder, name, valid))

SerializeMetadataCall ==
    /\ builder.live
    /\ Held(builder.meta) < MaxValues
    /\ \E name \in MetaNames, valid \in BOOLEAN :
          Returned("serialize_metadata", [name |-> name, valid |-> valid],
                   SerializeMetadata(builder, name, valid))

AddGlobalStateCall ==
    /\ builder.live
    /\ Held(builder.global) < MaxValues
    /\ \E name \in GlobalNames, valid \in BOOLEAN :
          Returned("add_global_state", [name |-> name, valid |-> valid],
                   AddGlobalState(builder, name, valid))

SerializeGlobalStateCall ==
    /\ builder.live
    /\ Held(builder.global) < MaxValues
    /\ \E name \in GlobalNames, valid \in BOOLEAN :
          Returned("serialize_global_state", [name |-> name, valid |-> valid],
                   SerializeGlobalState(builder, name, valid))

NextBuilder ==
    \/ With
    \/ AddMetadataCall
    \/ SerializeMetadataCall
    \/ AddGlobalStateCall
    \/ SerializeGlobalStateCall
    \/ SetMainnetCall
    \/ AddLayer1Call
    \/ AddOwnedStateRawCall
    \/ AddRightsCall
    \/ AddOwnedStateCall
    \/ SerializeOwnedStateCall

SpecBuilder == InitContractBuilder /\ [][NextBuilder]_vars

----------------------------------------------------------------------------
(* Issuing a contract from the contract builder *)

\* the timestamps given to issue_contract_det, and the times the clock shows
Timestamps == {0, 1}

\* the genesis issue_contract_raw assembles; metadata is left empty
Genesis(b, timestamp) ==
    [timestamp |-> timestamp, testnet |-> b.testnet, alt_layers1 |-> b.alt_layers1,
     metadata |-> <<>>, globals |-> b.global, assignments |-> b.assignments]

\* Contract::validate against the resolver that consults no chain
ContractValidate(genesis, testnet) ==
    IF genesis.testnet = testnet THEN Built ELSE BuilderError("ContractInconsistency", "")

\* ContractBuilder::issue_contract_raw: the builder is consumed
IssueContractRaw(b, timestamp) ==
    [b |-> [b EXCEPT !.live = FALSE],
     res |-> ContractValidate(Genesis(b, timestamp), b.testnet),
     genesis |-> Genesis(b, timestamp)]

\* ContractBuilder::issue_contract_det stamping the genesis with the time of the clock
IssueContractDetClock(b, timestamp, now) == IssueContractRaw(b, now)

\* ContractBuilder::issue_contract_det; now is the time the clock shows during the call
IssueContractDet(b, timestamp, now) == IssueContractRaw(b, timestamp)

\* ContractBuilder::issue_contract; now is the time the clock shows during the call
IssueContract(b, now) == IssueContractRaw(b, now)

\* the genesis opid, and the contract id: a commitment to every field of the genesis
GenesisOpid(genesis) ==
    <<genesis.timestamp, genesis.testnet, genesis.alt_layers1, genesis.metadata,
      genesis.globals, genesis.assignments>>

\* the builder in hand and a second builder that was fed the same calls finish with
\* issue_contract_det for the same timestamp, each at the time its clock shows
IssueContractDetCall ==
    /\ builder.live
    /\ \E timestamp \in Timestamps, now \in Timestamps, twin_now \in Timestamps :
          Returned("issue_contract_det",
                   [timestamp |-> timestamp,
                    genesis |-> IssueContractDet(builder, timestamp, now).genesis,
                    twin |-> IssueContractDet(builder, timestamp, twin_now).genesis,
                    now |-> now, twin_now |-> twin_now],
                   IssueContractDet(builder, timestamp, now))

\* the two builders finish with issue_contract
IssueContractCall ==
    /\ builder.live
    /\ \E now \in Timestamps, twin_now \in Timestamps :
          Returned("issue_contract",
                   [genesis |-> IssueContract(builder, now).genesis,
                    twin |-> IssueContract(builder, twin_now).genesis,
                    now |-> now, twin_now |-> twin_now],
                   IssueContract(builder, now))

NextGenesis ==
    \/ With
    \/ SetMainnetCall
    \/ AddLayer1Call
    \/ AddGlobalStateCall
    \/ AddOwnedStateCall
    \/ IssueContractDetCall
    \/ IssueContractCall

SpecGenesis == InitContractBuilder /\ [][NextGenesis]_vars

----------------------------------------------------------------------------
(* A receiver consuming a consignment that was altered on its way *)

HeaderLen == 5

\* the operation records of a payload: operation, defined seals, witness count, witnesses
RECURSIVE ParseRecords(_)
RecordLen(items) == 3 + items[3].v
IsRecordHead(items) ==
    /\ Len(items) >= 3
    /\ items[1].t = "op" /\ items[2].t = "seals" /\ items[3].t = "count"
    /\ Len(items) >= RecordLen(items)
    /\ \A i \in 4..RecordLen(items) : items[i].t = "wit"
ParseRecordsCons(rec, rest) == [rest EXCEPT !.recs = IF rest.ok THEN <<rec>> \o @ ELSE <<>>]
ParseRecords(items) ==
    IF items = <<>> THEN [ok |-> TRUE, recs |-> <<>>]
    ELSE IF ~IsRecordHead(items) THEN [ok |-> FALSE, recs |-> <<>>]
    ELSE ParseRecordsCons(SubSeq(items, 1, RecordLen(items)),
                          ParseRecords(SubSeq(items, RecordLen(items) + 1, Len(items))))

RECURSIVE Concat(_)
Concat(seqs) == IF seqs = <<>> THEN <<>> ELSE Head(seqs) \o Concat(Tail(seqs))

RecordOrders(n) == {p \in [1..n -> 1..n] : \A i, j \in 1..n : p[i] = p[j] => i = j}

\* the ways a payload is altered: left as it is, cut between two values, cut inside a value,
\* one value overwritten, the operation records reordered, the codex of the header replaced
Tamperings(items) ==
    {[kind |-> "none", at |-> 0, perm |-> <<>>]}
    \cup {[kind |-> "cut", at |-> k, perm |-> <<>>] : k \in 0..(Len(items) - 1)}
    \cup {[kind |-> "partial", at |-> k, perm |-> <<>>] : k \in 1..Len(items)}
    \cup {[kind |-> "junk", at |-> k, perm |-> <<>>] : k \in 1..Len(items)}
    \cup {[kind |-> "reorder", at |-> 0, perm |-> p] :
             p \in {q \in RecordOrders(Len(ParseRecords(SubSeq(items, HeaderLen + 1, Len(items))).recs)) :
                       \E i \in DOMAIN q : q[i] # i}}
    \cup {[kind |-> "codex", at |-> HeaderLen, perm |-> <<>>]}

Reorder(items, perm) ==
    LET recs == ParseRecords(SubSeq(items, HeaderLen + 1, Len(items))).recs
    IN SubSeq(items, 1, HeaderLen) \o Concat([i \in DOMAIN perm |-> recs[perm[i]]])

Tamper(items, t) ==
    CASE t.kind = "none" -> items
      [] t.kind = "cut" -> SubSeq(items, 1, t.at)
      [] t.kind = "partial" -> Append(SubSeq(items, 1, t.at - 1), Item("partial", 0))
      [] t.kind = "junk" -> [items EXCEPT ![t.at] = Item("junk", 0)]
      [] t.kind = "reorder" -> Reorder(items, t.perm)
      [] t.kind = "codex" -> [items EXCEPT ![t.at] = Item("codex", 2)]

\* Mound::consume, by a mound seeded with the articles, of the stream the last call of
\* Mound::consign wrote, altered on its way
Receive ==
    /\ last.op = "consign"
    /\ last.res.kind = "Ok"
    /\ \E t \in Tamperings(last.out.items), wallet \in {{}, Seals} :
          LET id == last.args.contract_id
              stream == Stream(last.out.bytes, Tamper(last.out.items, t))
              got == MoundConsume(Seeded(mound, id), stream, wallet)
          IN /\ mound' = mound
             /\ last' = Call("receive",
                             [contract_id |-> id, tamper |-> t, stream |-> stream,
                              wallet |-> wallet],
                             [res |-> got.res, peer |-> got.m,
                              touched |-> got.touched, calls |-> got.calls,
                              merged |-> got.merged])
             /\ UNCHANGED <<builder, blast>>

\* Mound::issue of the sender's contract
IssueSender ==
    /\ DOMAIN mound.contracts = {}
    /\ IssueFrom(CreateParamsSet(MoundMaxOwned), 1)

NextConsume == IssueSender \/ ApplyOperationCall \/ Attest \/ Consign \/ Receive

SpecConsume == InitStock /\ [][NextConsume]_vars

----------------------------------------------------------------------------
(* A mound loaded from a directory, hosting contracts *)

\* a contract with one transition, attested by one witness: the transition spends the
\* assignment of the genesis and assigns to the second seal
StoredContract(params) ==
    LET issued == StockpileIssue([codex_id |-> params.codex_id], params)
        op == Operation(StockpileContractId(issued), 0,
                        {CellAddr(Opid(issued.stock.articles.genesis), 0)},
                        <<SealAuthToken(2)>>)
    IN StockpileAttest(ApplyOperation(issued, op, <<2>>), Opid(op), 1)

\* the contracts a directory can hold: one contract for each consensus and network
StoredContracts ==
    {StoredContract([codex_id |-> 1, consensus |-> k, testnet |-> t, owned |-> <<Alt(1)>>,
                     global |-> <<>>, names |-> <<"asset">>]) :
        k \in ConsensusSet, t \in BOOLEAN}

\* DirExcavator::contracts loading every contract of the directory
DirExcavatorContractsUnfiltered(dir, consensus, testnet) ==
    [id \in {StockpileContractId(sp) : sp \in dir} |->
        CHOOSE sp \in dir : StockpileContractId(sp) = id]

\* DirExcavator::contracts: the contracts of the directory whose meta names the consensus and
\* the network of the excavator, each under its contract id
DirExcavatorContracts(dir, consensus, testnet) ==
    LET found == {sp \in dir : /\ sp.stock.articles.consensus = consensus
                               /\ sp.stock.articles.testnet = testnet}
    IN [id \in {StockpileContractId(sp) : sp \in found} |->
           CHOOSE sp \in found : StockpileContractId(sp) = id]

\* DirMound::load_testnet
LoadTestnet(consensus, schemata, dir) ==
    OpenTestnet(consensus, schemata, DirExcavatorContracts(dir, consensus, TRUE))

InitHost ==
    /\ \E dir \in SUBSET StoredContracts :
          mound = LoadTestnet("Bitcoin", [c \in {1} |-> [codex_id |-> c]], dir)
    /\ last = NoCall
    /\ InitBuilder

\* Mound::issue with parameters for the mound's consensus, for either network and codex
IssueHosted ==
    IssueFrom({p \in CreateParamsSet(MoundMaxOwned) :
                  p.consensus = "Bitcoin" /\ p.owned \in {<<Alt(s)>> : s \in Seals}},
              MaxContracts)

\* Mound::attest with one anchor, for the genesis of a hosted contract
AttestHosted ==
    \E id \in DOMAIN mound.contracts, witness \in WitnessIds :
        LET opid == Opid(mound.contracts[id].stock.articles.genesis)
            r == MoundAttest(mound, id, opid, witness)
        IN /\ Len(PileRetrieve(mound.contracts[id].pile, opid)) < MaxWitnesses
           /\ mound' = r.m
           /\ last' = Call("attest", [contract_id |-> id, opid |-> opid, witness |-> witness],
                           [res |-> r.res])
           /\ UNCHANGED <<builder, blast>>

\* the payload of one consignment up to its genesis record, followed by the records after
\* the genesis of another
Graft(items, other) ==
    SubSeq(items, 1, HeaderLen + RecordLen(SubSeq(items, HeaderLen + 1, Len(items))))
        \o SubSeq(other, HeaderLen + RecordLen(SubSeq(other, HeaderLen + 1, Len(other))) + 1,
                  Len(other))

\* the consignments of the contracts of every network
StoredPayloads ==
    {StockpileConsign(sp, AuthTokens, EmptyStream).items : sp \in StoredContracts}

\* the consignments of hosted contracts, those of the contracts of every network, and those
\* of hosted contracts continued by the transitions of a contract of some network, each
\* under the envelope of a hosted contract or of a contract not hosted
HostStreams(m) ==
    {Stream(Envelope(id).bytes, items) :
        id \in DOMAIN m.contracts \cup {ForeignId},
        items \in {StockpileConsign(m.contracts[h], AuthTokens, EmptyStream).items :
                        h \in DOMAIN m.contracts}
                    \cup StoredPayloads
                    \cup {Graft(StockpileConsign(m.contracts[h], {}, EmptyStream).items, other) :
                             h \in DOMAIN m.contracts, other \in StoredPayloads}}

\* Mound::consume by the owner of every seal
ConsumeHosted ==
    \E stream \in HostStreams(mound), wallet \in {Seals} :
        LET r == MoundConsume(mound, stream, wallet)
        IN /\ \A id \in DOMAIN r.m.contracts :
                 \A opid \in DOMAIN r.m.contracts[id].pile.wit :
                     Len(r.m.contracts[id].pile.wit[opid]) <= MaxWitnesses
           /\ mound' = r.m
           /\ last' = Call("consume", [stream |-> stream, wallet |-> wallet],
                           [res |-> r.res, touched |-> r.touched, calls |-> r.calls])
           /\ UNCHANGED <<builder, blast>>

NextHost == IssueHosted \/ AttestHosted \/ Consign \/ ConsumeHosted

SpecHost == InitHost /\ [][NextHost]_vars

----------------------------------------------------------------------------
(* Issuing under state names as a state machine *)

\* Mound::issue with parameters for the mound's network, naming global and owned state
IssueNamed ==
    IssueFrom({p \in NamedCreateParamsSet(MoundMaxOwned) : p.consensus = "Bitcoin" /\ p.testnet},
              MaxContracts)

NextIssue == IssueNamed \/ Consign

SpecIssue == InitStock /\ [][NextIssue]_vars

----------------------------------------------------------------------------
(* The transition builder as a state machine *)

InitTransitionBuilder ==
    /\ mound = OpenTestnet("Bitcoin", <<>>, <<>>)
    /\ last = NoCall
    /\ builder = TransitionBuilderWith(1, 1, TRUE)
    /\ blast = TransitionCall("default_transition", <<>>, [res |-> Built, insufficient |-> 0])

TransitionReturned(op, args, r) ==
    /\ builder' = r.b
    /\ blast' = TransitionCall(op, args, r)
    /\ UNCHANGED <<mound, last>>

\* TransitionBuilder::default_transition: a new builder replaces the one in hand
DefaultTransition ==
    /\ builder # TransitionBuilderWith(1, 1, TRUE)
    /\ TransitionReturned("default_transition", <<>>,
                          [b |-> TransitionBuilderWith(1, 1, TRUE), res |-> Built, insufficient |-> 0])

\* TransitionBuilder::blank_transition
BlankTransition ==
    /\ builder # TransitionBuilderWith(1, TransitionTypeBlank, FALSE)
    /\ TransitionReturned("blank_transition", <<>>,
                          [b |-> TransitionBuilderWith(1, TransitionTypeBlank, FALSE), res |-> Built, insufficient |-> 0])

AddInputCall ==
    /\ builder.live
    /\ builder.added < MaxInputs
    /\ \E opout \in Opouts, value \in Amounts, fails \in BOOLEAN :
          TransitionReturned("add_input", [opout |-> opout, value |-> value, fails |-> fails],
                             AddInput(builder, opout, value, fails))

FulfillOwnedStateCall ==
    /\ builder.live
    /\ Assigned(builder) < MaxAssignments
    /\ \E type_id \in AssignmentTypes, seal \in GraphSeals, value \in Amounts, fails \in BOOLEAN :
          TransitionReturned("fulfill_owned_state",
                             [type_id |-> type_id, seal |-> seal, value |-> value,
                              fails |-> fails],
                             FulfillOwnedState(builder, type_id, seal, value, fails))

AddOwnedStateChangeCall ==
    /\ builder.live
    /\ Assigned(builder) < MaxAssignments
    /\ \E type_id \in AssignmentTypes, seal \in GraphSeals, fails \in BOOLEAN :
          TransitionReturned("add_owned_state_change",
                             [type_id |-> type_id, seal |-> seal, fails |-> fails],
                             AddOwnedStateChange(builder, type_id, seal, fails))

NextTransition ==
    \/ DefaultTransition
    \/ BlankTransition
    \/ AddInputCall
    \/ FulfillOwnedStateCall
    \/ AddOwnedStateChangeCall

SpecTransition == InitTransitionBuilder /\ [][NextTransition]_vars

----------------------------------------------------------------------------
(* Properties of Mound::issue *)

\* the parameters name the mound's consensus and network
EnvMatches(m, params) == params.consensus = m.consensus /\ params.testnet = m.testnet

IssueErrors == {"ConsensusMismatch", "TestnetMismatch", "MainnetMismatch", "UnknownCodex"}

----------------------------------------------------------------------------
(* Properties of Mound::consume and of the envelope *)

\* the first n bytes of a stream, or all of them when it is shorter
Prefix(bytes, n) == SubSeq(bytes, 1, IF Len(bytes) < n THEN Len(bytes) ELSE n)

HasMagic(bytes) == Prefix(bytes, 16) = MAGIC_BYTES_CONSIGNMENT

\* magic, version 0 and a contract id, in this order
EnvelopeBytes(id) == MAGIC_BYTES_CONSIGNMENT \o <<0, 0>> \o id

\* the call left every stockpile alone
Untouched == last'.touched = {} /\ last'.calls = <<>> /\ mound' = mound

\* C2, as stated: Mound::consume rejects with UnrecognizedMagic every stream whose first 16
\* bytes differ from the magic, streams shorter than 16 bytes included, touching no stockpile.
C2_BadMagicIsUnrecognized ==
    [][last'.op = "consume" /\ ~HasMagic(last'.args.stream.bytes) =>
          last'.res = Err("UnrecognizedMagic", 0) /\ Untouched]_vars

\* C2, amended: Mound::consume rejects a stream whose first 16 bytes differ from the magic
\* with UnrecognizedMagic when the stream holds 16 bytes or more, and with a Decode error
\* when it ends before the 16th byte; either way no stockpile is touched and the mound is
\* unchanged.
C2_MagicGating ==
    [][last'.op = "consume" /\ ~HasMagic(last'.args.stream.bytes) =>
          /\ last'.res = IF Len(last'.args.stream.bytes) >= 16
                         THEN Err("UnrecognizedMagic", 0)
                         ELSE Err("Decode", 0)
          /\ Untouched]_vars

\* a stream with one byte of the magic changed, otherwise addressed to a hosted contract and
\* carrying its operations, was rejected for its magic
C2_Witness ==
    /\ last.op = "consume"
    /\ Len(last.args.stream.bytes) = 50
    /\ ~HasMagic(last.args.stream.bytes)
    /\ SubSeq(last.args.stream.bytes, 19, 50) \in DOMAIN mound.contracts
    /\ last.args.stream.items # <<>>
    /\ last.res = Err("UnrecognizedMagic", 0)

\* C9: Mound::consume of a stream with a well-formed envelope (magic, version 0, contract id)
\* whose contract id the mound does not host returns UnknownContract(id), invokes no
\* stockpile, and leaves the mound (schemata and contracts) unchanged.
C9_UnknownContract ==
    [][/\ last'.op = "consume"
       /\ Len(last'.args.stream.bytes) >= 50
       /\ Prefix(last'.args.stream.bytes, 18) = MAGIC_BYTES_CONSIGNMENT \o <<0, 0>>
       /\ SubSeq(last'.args.stream.bytes, 19, 50) \notin DOMAIN mound.contracts
       => /\ last'.res = ErrId("UnknownContract", SubSeq(last'.args.stream.bytes, 19, 50))
          /\ Untouched]_vars

\* a mound hosting a contract was given the operations of that contract under the id of a
\* contract it does not host
C9_Witness ==
    /\ last.op = "consume"
    /\ last.res = ErrId("UnknownContract", ForeignId)
    /\ DOMAIN mound.contracts # {}
    /\ last.args.stream.items # <<>>

\* C10: the envelope Mound::consign(contract_id, ..) writes is the 16 bytes of the magic, the
\* 2 bytes of version 0 and the 32 bytes of contract_id, in this order; and Mound::consume of
\* a stream starting with the envelope of a hosted contract delegates to the stockpile hosted
\* under that id and to no other, and leaves every other contract of the mound unchanged.
C10_EnvelopeRouting ==
    [][/\ last'.op = "consign" =>
             /\ Prefix(last'.out.bytes, 50) = EnvelopeBytes(last'.args.contract_id)
             /\ Len(last'.out.bytes) = 16 + 2 + 32
             /\ Len(MAGIC_BYTES_CONSIGNMENT) = 16 /\ Len(last'.args.contract_id) = 32
       /\ \A id \in DOMAIN mound.contracts :
             last'.op = "consume" /\ Prefix(last'.args.stream.bytes, 50) = EnvelopeBytes(id) =>
                /\ last'.touched = {id}
                /\ DOMAIN mound'.contracts = DOMAIN mound.contracts
                /\ \A other \in DOMAIN mound.contracts \ {id} :
                      mound'.contracts[other] = mound.contracts[other]
                /\ mound'.schemata = mound.schemata]_vars

\* a mound hosting two contracts consumed a consignment of one of them
C10_Witness ==
    /\ last.op = "consume"
    /\ Cardinality(DOMAIN mound.contracts) = 2
    /\ last.touched # {}
    /\ last.calls # <<>>
    /\ last.res = Ok(0)

----------------------------------------------------------------------------
(* One contract written to and read from *)

\* the stockpile Stockpile::state leaves behind: it reads the seals of every owned cell
\* through pile_mut().keep_mut()
StockpileAfterState(sp) ==
    [sp EXCEPT !.pile = ReadKept(@, {addr.opid : addr \in sp.stock.owned})]

\* the stockpile Stockpile::consign leaves behind: its closure reads the seals and the
\* witnesses of every operation it streams
StockpileAfterConsign(sp, terminals) ==
    [sp EXCEPT !.pile = ReadKept(@, ExportSet(sp.stock, terminals))]

\* Stockpile::state, with exclusive access to the stockpile
StateCall ==
    \E id \in DOMAIN mound.contracts :
        /\ mound' = [mound EXCEPT !.contracts[id] = StockpileAfterState(@)]
        /\ last' = Call("state", [contract_id |-> id],
                        [res |-> IF StockpileState(mound.contracts[id]).ok THEN Ok(0)
                                 ELSE Abort("index out of bounds"),
                         view |-> StockpileState(mound.contracts[id]).owned])
        /\ UNCHANGED <<builder, blast>>

\* Stockpile::seal, with shared access to the stockpile
SealCall ==
    \E id \in DOMAIN mound.contracts, seal \in Seals :
        /\ mound' = mound
        /\ last' = Call("seal", [contract_id |-> id, seal |-> seal],
                        [view |-> StockpileSeal(mound.contracts[id], seal)])
        /\ UNCHANGED <<builder, blast>>

\* Mound::select, with shared access to the mound
SelectCall ==
    \E seal \in Seals :
        /\ mound' = mound
        /\ last' = Call("select", [seal |-> seal], [view |-> MoundSelect(mound, seal)])
        /\ UNCHANGED <<builder, blast>>

\* Mound::consign of a hosted contract, with exclusive access to the mound
ConsignCall ==
    \E id \in DOMAIN mound.contracts, terminals \in SUBSET AuthTokens :
        /\ mound' = [mound EXCEPT !.contracts[id] = StockpileAfterConsign(@, terminals)]
        /\ last' = Call("consign", [contract_id |-> id, terminals |-> terminals],
                        [res |-> MoundConsign(mound, id, terminals).res,
                         out |-> MoundConsign(mound, id, terminals).out])
        /\ UNCHANGED <<builder, blast>>

NextFrame ==
    \/ IssueOne
    \/ ApplyOperationCall
    \/ Attest
    \/ StateCall
    \/ SealCall
    \/ SelectCall
    \/ ConsignCall

SpecFrame == InitStock /\ [][NextFrame]_vars

----------------------------------------------------------------------------
(* The pile of one contract as a state machine *)

\* ContractApi::apply_operation called again for an operation of the history, with the seals
\* a reader supplies for it: the seals kept for it, extended by the resolver's
ReapplyOperationCall ==
    \E id \in DOMAIN mound.contracts, wallet \in {{}, Seals} :
        \E op \in Range(History(mound.contracts[id].stock)) :
            LET defined_seals == mound.contracts[id].pile.keep[Opid(op)]
                                    \o Resolve(wallet, op.destructible)
            IN /\ mound' = [mound EXCEPT !.contracts[id] = ApplyOperation(@, op, defined_seals)]
               /\ last' = Call("apply_operation",
                               [contract_id |-> id, op |-> op, defined_seals |-> defined_seals],
                               NoResult)
               /\ UNCHANGED <<builder, blast>>

NextPile == IssueOne \/ ApplyOperationCall \/ ReapplyOperationCall \/ Attest \/ Transfer

SpecPile == InitStock /\ [][NextPile]_vars

----------------------------------------------------------------------------
(* Properties of the stockpile: seals, state, consign and consume *)

\* the seal definition the pile keeps for an address, if it keeps one
SealDefined(sp, addr) ==
    /\ addr.opid \in DOMAIN sp.pile.keep
    /\ addr.pos + 1 <= Len(sp.pile.keep[addr.opid])

\* the auth token the stock's auth index maps to an address
AuthOf(stock, addr) == CHOOSE t \in DOMAIN stock.auth : stock.auth[t] = addr

\* the genesis was issued with a token-only seal
TokenIssued(sp) ==
    Len(sp.pile.keep[Opid(sp.stock.articles.genesis)])
        < Len(sp.stock.articles.genesis.destructible)

\* C5, as stated: for every live owned-assignment address (opid, pos) of every contract, the
\* seal stored at pile.keep[opid][pos] has the auth token the stock's auth index maps to the
\* address.
C5_SealBijection ==
    \A id \in DOMAIN mound.contracts :
        \A addr \in mound.contracts[id].stock.owned :
            /\ SealDefined(mound.contracts[id], addr)
            /\ SealAuthToken(mound.contracts[id].pile.keep[addr.opid][addr.pos + 1])
                  = AuthOf(mound.contracts[id].stock, addr)

\* a live assignment whose index in the keep store holds the seal of another assignment
C5_Witness ==
    \E id \in DOMAIN mound.contracts :
        \E addr \in mound.contracts[id].stock.owned :
            /\ SealDefined(mound.contracts[id], addr)
            /\ SealAuthToken(mound.contracts[id].pile.keep[addr.opid][addr.pos + 1])
                  # AuthOf(mound.contracts[id].stock, addr)

\* C6, as stated: for every live owned assignment at (opid, pos) there is a seal definition
\* in pile.keep[opid] at index pos, so that Stockpile::state joins every owned assignment
\* with its seal without an index out of range, whatever CreateParams.owned was issued.
C6_StateJoinsEverySeal ==
    \A id \in DOMAIN mound.contracts :
        /\ StockpileState(mound.contracts[id]).ok
        /\ DOMAIN StockpileState(mound.contracts[id]).owned = mound.contracts[id].stock.owned

\* Stockpile::state was called on a contract issued with explicit and token-only seals,
\* and aborted
C6_Witness ==
    /\ last.op = "state"
    /\ last.res.kind = "Abort"
    /\ \E id \in DOMAIN mound.contracts :
          /\ id = last.args.contract_id
          /\ Len(mound.contracts[id].pile.keep[Opid(mound.contracts[id].stock.articles.genesis)]) > 0
          /\ TokenIssued(mound.contracts[id])

\* the operations a stream carries, in its order
StreamOps(stream) ==
    LET ops == SelectSeq(stream.items, LAMBDA item : item.t = "op")
    IN [i \in DOMAIN ops |-> ops[i].v]

\* the opids reachable backwards, through inputs, in at most n steps
RECURSIVE ReachableOpids(_, _, _)
ReachableOpids(stock, opids, n) ==
    IF n = 0 THEN opids
    ELSE ReachableOpids(
             stock,
             opids \cup {a.opid : a \in UNION {OpById(stock, o).destroying : o \in opids}},
             n - 1)

\* the genesis and the operations reachable backwards from the terminals
Closure(stock, terminals) ==
    ReachableOpids(stock,
                   {Opid(stock.articles.genesis)}
                       \cup {stock.auth[t].opid : t \in terminals \cap DOMAIN stock.auth},
                   Len(stock.stash))

\* the last call emitted a consignment of a hosted contract
Emitted == (last.op = "consign" /\ last.res.kind = "Ok") \/ last.op = "transfer"

Topological(stock, terminals, ops) ==
    /\ ops # <<>>
    /\ ops[1] = stock.articles.genesis
    /\ NoDup(ops)
    /\ \A o \in Closure(stock, terminals) : \E i \in DOMAIN ops : Opid(ops[i]) = o
    /\ \A i \in DOMAIN ops :
          \A a \in ops[i].destroying : \E j \in 1..(i - 1) : Opid(ops[j]) = a.opid

Attested(sp, opids) ==
    \A o \in opids \ {Opid(sp.stock.articles.genesis)} : PileRetrieve(sp.pile, o) # <<>>

\* the states of sender and receiver agree on the closure: what the sender holds live of
\* the closure the receiver holds with the same seal, and what the receiver holds is of the
\* closure and is live at the sender, or spent there by an operation outside the closure
SameStateOn(closure, sender, receiver) ==
    /\ StockpileState(sender).ok
    /\ StockpileState(receiver).ok
    /\ \A addr \in sender.stock.owned :
          addr.opid \in closure =>
             /\ addr \in receiver.stock.owned
             /\ StockpileState(receiver).owned[addr] = StockpileState(sender).owned[addr]
    /\ \A addr \in receiver.stock.owned :
          /\ addr.opid \in closure
          /\ \/ addr \in sender.stock.owned
             \/ \E op \in Range(sender.stock.stash) :
                   Opid(op) \notin closure /\ addr \in op.destroying

\* C3, as stated, for a sender whose state transitions all have witnesses: consuming the
\* stream of consign(C, T), T a non-empty set of terminal auth tokens of C, into a mound
\* seeded only with the articles of C succeeds and yields a state of C that, restricted to
\* the closure of T, equals the state in the sending mound.
C3_ConsignConsumeClosure ==
    last.op = "transfer"
    /\ Attested(mound.contracts[last.args.contract_id],
                Closure(mound.contracts[last.args.contract_id].stock, last.args.terminals))
    => /\ last.res = Ok(0)
       /\ SameStateOn(Closure(mound.contracts[last.args.contract_id].stock, last.args.terminals),
                      mound.contracts[last.args.contract_id],
                      last.peer.contracts[last.args.contract_id])

\* a contract issued with a token-only seal was consigned and consumed, the consume
\* succeeded, and the state of the sender cannot be computed
C3_Witness ==
    /\ last.op = "transfer"
    /\ last.res = Ok(0)
    /\ TokenIssued(mound.contracts[last.args.contract_id])
    /\ ~StockpileState(mound.contracts[last.args.contract_id]).ok

----------------------------------------------------------------------------
(* Properties of the contract builder *)

OwnedStateMethods == {"add_owned_state_raw", "add_owned_state", "serialize_owned_state"}

\* the call got past the layer check
LayerChecked(res) == ~(res.kind = "Err" /\ res.err = "InvalidLayer1")

\* C7: each of add_owned_state_raw, add_owned_state and serialize_owned_state, called with a
\* Liquid seal, passes the layer check if and only if add_layer1(Liquid) was called earlier
\* on the same builder; called with a Bitcoin seal it always passes the layer check.
C7_LayerGating ==
    [][blast'.op \in OwnedStateMethods =>
          /\ blast'.seal.layer1 = "Bitcoin" => LayerChecked(blast'.res)
          /\ blast'.seal.layer1 = "Liquid" =>
                /\ LayerChecked(blast'.res) <=> "Liquid" \in builder.layers_called
                /\ ~LayerChecked(blast'.res) =>
                      blast'.res = BuilderError("InvalidLayer1", "Liquid")]_vars

\* after add_layer1(Liquid), an assignment to a Liquid seal was added
C7_Witness ==
    /\ blast.op \in OwnedStateMethods
    /\ blast.seal.layer1 = "Liquid"
    /\ blast.res = Built
    /\ "Liquid" \in builder.layers_called
    /\ \E t \in DOMAIN builder.assignments :
          \E i \in DOMAIN builder.assignments[t] : builder.assignments[t][i].seal = blast.seal

\* C8, as stated, for a name the interface implementation binds: a builder on which
\* add_layer1(Liquid) was never called returns InvalidLayer1(Liquid) from
\* add_rights(name, seal, attach) when the seal is a Liquid seal, and adds no assignment.
C8_AddRightsLayerChecked ==
    [][/\ blast'.op = "add_rights"
       /\ blast'.seal.layer1 = "Liquid"
       /\ AssignmentsType(blast'.name).ok
       /\ "Liquid" \notin builder.layers_called
       => /\ blast'.res = BuilderError("InvalidLayer1", "Liquid")
          /\ builder'.assignments = builder.assignments]_vars

\* add_rights added an assignment to a Liquid seal on a builder that declares no Liquid layer
C8_Witness ==
    /\ blast.op = "add_rights"
    /\ blast.seal.layer1 = "Liquid"
    /\ blast.res = Built
    /\ "Liquid" \notin builder.layers_called
    /\ \E t \in DOMAIN builder.assignments :
          \E i \in DOMAIN builder.assignments[t] : builder.assignments[t][i].seal = blast.seal

----------------------------------------------------------------------------
(* Properties of consume on altered streams *)

\* the receiver before the call, and after it
ReceiverBefore == Seeded(mound, last.args.contract_id).contracts[last.args.contract_id]
ReceiverAfter == last.peer.contracts[last.args.contract_id]

HeaderTypes == <<"schema", "sigs", "version", "meta", "codex">>

\* the payload is the header the contract's articles give, followed by complete records
HeaderOf(articles) == WriteArticles(EmptyStream, articles).items
CompleteRecords(items) ==
    /\ Len(items) >= HeaderLen
    /\ \A i \in 1..HeaderLen : items[i].t = HeaderTypes[i]
    /\ ParseRecords(SubSeq(items, HeaderLen + 1, Len(items))).ok
WellFormed(items, articles) ==
    /\ CompleteRecords(items)
    /\ SubSeq(items, 1, HeaderLen) = HeaderOf(articles)

\* the k-th operation of the stream breaks the order: the first is not the genesis, a later
\* one has an input that no operation before it defines
OutOfOrderAt(ops, genesis, k) ==
    IF k = 1 THEN ops[1] # genesis
    ELSE \E a \in ops[k].destroying : a.opid \notin {Opid(ops[j]) : j \in 1..(k - 1)}

\* C11: consume applies the operations in the order of the stream (the receiver's history is
\* the genesis followed by a prefix of the stream's later operations, all of them when consume
\* returns Ok), and a stream whose first operation is not the genesis, or in which an
\* operation's input refers to an operation not yet applied, is refused with Verify, the
\* offending operation not being applied.
C11_StreamOrder ==
    last.op = "receive" /\ WellFormed(last.args.stream.items, ReceiverBefore.stock.articles)
    => LET ops == StreamOps(last.args.stream)
           stash == ReceiverAfter.stock.stash
       IN /\ stash = SubSeq(ops, 2, 1 + Len(stash))
          /\ last.res.kind = "Ok" => stash = SubSeq(ops, 2, Len(ops))
          /\ \A k \in DOMAIN ops :
                OutOfOrderAt(ops, ReceiverBefore.stock.articles.genesis, k)
                => /\ last.res = Err("Verify", 0)
                   /\ ops[k] \notin Range(stash)

\* the records of a history of three operations arrived with the genesis first and the other
\* two exchanged; consume returned Verify and applied neither
C11_Witness ==
    /\ last.op = "receive"
    /\ last.args.tamper.kind = "reorder"
    /\ Len(StreamOps(last.args.stream)) = 3
    /\ StreamOps(last.args.stream)[1] = ReceiverBefore.stock.articles.genesis
    /\ OutOfOrderAt(StreamOps(last.args.stream), ReceiverBefore.stock.articles.genesis, 2)
    /\ last.res = Err("Verify", 0)
    /\ ReceiverAfter.stock.stash = <<>>

\* C12: a decode error in the operation stream of consume, after the envelope and the header,
\* comes back through the error return (as Decode): no consume ends in an abort.
C12_DecodeErrorReturned ==
    last.op = "receive" => last.res.kind # "Abort"

\* the seals after the genesis of a stream were overwritten by a value that is no list of
\* seals, and consume aborted in read_operation
C12_Witness ==
    /\ last.op = "receive"
    /\ last.args.tamper = [kind |-> "junk", at |-> HeaderLen + 2, perm |-> <<>>]
    /\ last.args.stream.items[HeaderLen + 1].t = "op"
    /\ last.res = Abort("read_operation")

\* C13: consume returns Ok only for a stream that ends after a complete operation record
\* (operation, defined seals, witness count, that many witnesses).
C13_OkOnlyOnCompleteRecords ==
    last.op = "receive" /\ last.res.kind = "Ok" => CompleteRecords(last.args.stream.items)

\* a stream was cut inside the encoding of an operation that follows a complete record, and
\* consume returned Ok
C13_Witness ==
    /\ last.op = "receive"
    /\ last.args.tamper.kind = "partial"
    /\ last.args.tamper.at > HeaderLen + 1
    /\ Len(StreamOps(last.args.stream)) >= 1
    /\ ~CompleteRecords(last.args.stream.items)
    /\ last.res = Ok(0)

\* C14: whenever consume returns an error, the stock of the stockpile (its articles, its
\* history of operations and the state derived from it) is what it was before the call.
C14_ConsumeAtomic ==
    last.op = "receive" /\ last.res.kind = "Err" => ReceiverAfter.stock = ReceiverBefore.stock

\* a stream whose header names another codex was refused with Merge after its transitions
\* were applied: the receiver's history holds them and its live assignments changed
C14_Witness ==
    /\ last.op = "receive"
    /\ last.args.tamper.kind = "codex"
    /\ last.res = Err("Merge", 0)
    /\ ReceiverAfter.stock.stash # <<>>
    /\ ReceiverAfter.stock.owned # ReceiverBefore.stock.owned

\* the stock after the operations were applied to it, one after the other
RECURSIVE ApplyAll(_, _)
ApplyAll(stock, ops) ==
    IF ops = <<>> THEN stock ELSE ApplyAll(StockApply(stock, Head(ops)), Tail(ops))

\* the i-th operation consume added passes the verifier on the history before it, with the
\* witnesses the pile holds under its opid
VerifiedInPlace(before, after, i) ==
    VerifyOperation([stock |-> ApplyAll(before.stock, SubSeq(after.stock.stash, 1, i - 1)),
                     pile |-> after.pile],
                    after.stock.stash[i], FALSE,
                    Len(PileRetrieve(after.pile, Opid(after.stock.stash[i]))))

\* C15: every operation consume adds to the stock passed verification on the history before
\* it and has at least one witness retrievable from the pile under its opid; apply_operation
\* is called once per operation of the history, and witnesses are stored only under opids of
\* operations of the stream.
C15_OnlyVerifiedApplied ==
    last.op = "receive"
    => /\ \A i \in DOMAIN ReceiverAfter.stock.stash :
             /\ VerifiedInPlace(ReceiverBefore, ReceiverAfter, i)
             /\ PileRetrieve(ReceiverAfter.pile, Opid(ReceiverAfter.stock.stash[i])) # <<>>
       /\ Len(SelectSeq(last.calls, LAMBDA c : c = "apply_operation"))
             <= Len(History(ReceiverAfter.stock))
       /\ DOMAIN ReceiverAfter.pile.wit
             \subseteq {Opid(op) : op \in Range(StreamOps(last.args.stream))}

\* consume added two transitions to the receiver's history
C15_Witness ==
    /\ last.op = "receive"
    /\ Len(ReceiverAfter.stock.stash) = 2
    /\ ReceiverBefore.stock.stash = <<>>
    /\ \A i \in 1..2 : PileRetrieve(ReceiverAfter.pile, Opid(ReceiverAfter.stock.stash[i])) # <<>>

----------------------------------------------------------------------------
(* Properties of the transition builder *)

RECURSIVE SumValues(_)
SumValues(assigns) ==
    IF assigns = <<>> THEN 0 ELSE Head(assigns).state.data + SumValues(Tail(assigns))

\* the sum of the values of the outputs written for a type
OutputSum(b, type_id) ==
    IF type_id \in DOMAIN b.assignments THEN SumValues(b.assignments[type_id]) ELSE 0

LastOutput(b, type_id) == b.assignments[type_id][Len(b.assignments[type_id])].state.data

\* C16: in a builder made by default_transition, once add_owned_state_change returned for a
\* type the outputs written for the type sum up to the input values registered for it; and
\* fulfill_owned_state writes what of the state asked for is covered and returns the rest.
C16_TransitionMath ==
    /\ builder.has_calc /\ blast.op = "add_owned_state_change" /\ blast.res = Built
       => OutputSum(builder, blast.type_id) = builder.registered[blast.type_id]
    /\ builder.has_calc /\ blast.op = "fulfill_owned_state" /\ blast.res = Built
       => LastOutput(builder, blast.type_id) + blast.insufficient = blast.value

\* one input of 1000 was registered, 400 were fulfilled with nothing missing, and the change
\* written is 600
C16_Witness ==
    /\ builder.has_calc
    /\ blast.op = "add_owned_state_change"
    /\ blast.res = Built
    /\ Cardinality(DOMAIN builder.inputs) = 1
    /\ builder.registered[blast.type_id] = 1000
    /\ Len(builder.assignments[blast.type_id]) = 2
    /\ builder.assignments[blast.type_id][1].state.data = 400
    /\ builder.assignments[blast.type_id][2].state.data = 600
    /\ builder.assignments[blast.type_id][2].seal = blast.seal

----------------------------------------------------------------------------
(* Properties of the builder's name resolution *)

GlobalMethods == {"add_global_state", "serialize_global_state"}
MetadataMethods == {"add_metadata", "serialize_metadata"}
NamedOwnedMethods == {"add_owned_state", "serialize_owned_state", "add_rights"}

\* the call appended nothing
NothingAppended ==
    /\ builder'.global = builder.global
    /\ builder'.meta = builder.meta
    /\ builder'.assignments = builder.assignments

\* the call was refused with the error for the name
Refused(err) == blast'.res = BuilderError(err, blast'.name) /\ NothingAppended

\* the methods for global state and metadata refuse a name the implementation does not map
UnmappedStateRefused ==
    /\ blast'.op \in GlobalMethods /\ IimplGlobalType(blast'.name) = 0 => Refused("GlobalNotFound")
    /\ blast'.op \in MetadataMethods /\ IimplMetaType(blast'.name) = 0
       => Refused("MetadataNotFound")

\* C17 as stated: a name the implementation does not map is refused with GlobalNotFound,
\* MetadataNotFound or AssignmentNotFound by the methods for global state, metadata and owned
\* state, and nothing is appended to the builder.
C17_NameResolution ==
    [][/\ UnmappedStateRefused
       /\ blast'.op \in NamedOwnedMethods /\ IimplAssignmentType(blast'.name) = 0
          => Refused("AssignmentNotFound")]_vars

\* C17, amended: as stated for global state, metadata and add_rights; add_owned_state and
\* serialize_owned_state of the contract builder refuse an unmapped name with
\* AssignmentNotFound when the layer 1 of the seal is enabled.
C17_NameResolutionOnEnabledLayer ==
    [][/\ UnmappedStateRefused
       /\ /\ blast'.op \in NamedOwnedMethods
          /\ IimplAssignmentType(blast'.name) = 0
          /\ blast'.op # "add_rights" => HasLayer1(builder, blast'.seal.layer1)
          => Refused("AssignmentNotFound")]_vars

\* add_owned_state with an unmapped name and a seal on Liquid, which was enabled, returned
\* AssignmentNotFound
C17_Witness ==
    /\ blast.op = "add_owned_state"
    /\ blast.name = "bogus"
    /\ blast.seal.layer1 = "Liquid"
    /\ "Liquid" \in builder.alt_layers1
    /\ blast.res = BuilderError("AssignmentNotFound", "bogus")

----------------------------------------------------------------------------
(* Properties of issue and the names of state *)

\* the parameters hold global or owned state under a name the schema does not define
UnknownStateName(schema, params) ==
    \/ \E i \in DOMAIN params.global : params.global[i] \notin SchemaGlobalNames(schema)
    \/ \E i \in DOMAIN params.names : params.names[i] \notin SchemaOwnedNames(schema)

----------------------------------------------------------------------------
(* Properties of Stockpile::seal and the auth index *)

\* the addresses of every assignment an operation of the history defines
DefinedCells(stock) ==
    UNION {{CellAddr(Opid(op), i - 1) : i \in DOMAIN op.destructible} :
              op \in Range(History(stock))}

\* the addresses the inputs of the operations of the history spend
SpentCells(stock) == UNION {op.destroying : op \in Range(History(stock))}

\* the live assignments: defined by an applied operation and spent by none
LiveCells(stock) == DefinedCells(stock) \ SpentCells(stock)

\* the auth token an operation of the history defines an assignment under
TokenAt(stock, addr) == OpById(stock, addr.opid).destructible[addr.pos + 1]

\* Stockpile::seal answers with exactly the live assignments under the seal's auth token
SealIndexExact(sp) ==
    \A seal \in Seals :
        StockpileSeal(sp, seal)
            = {addr \in LiveCells(sp.stock) : TokenAt(sp.stock, addr) = SealAuthToken(seal)}

\* C19: Stockpile::seal(seal) returns the address of an assignment exactly when the
\* assignment under seal.auth_token() was defined by an applied operation and is spent by the
\* input of no applied operation, in every contract of the mound and of a receiver that
\* consumed a consignment.
C19_SealIffLive ==
    /\ \A id \in DOMAIN mound.contracts : SealIndexExact(mound.contracts[id])
    /\ last.op = "transfer"
          => \A id \in DOMAIN last.peer.contracts : SealIndexExact(last.peer.contracts[id])

\* an applied operation spent the assignment of one seal and defined one under another:
\* Stockpile::seal has no address for the first and the new address for the second
C19_Witness ==
    \E id \in DOMAIN mound.contracts :
        \E spent, made \in Seals :
            LET sp == mound.contracts[id]
            IN /\ sp.stock.stash # <<>>
               /\ SealAuthToken(spent) \in Range(sp.stock.articles.genesis.destructible)
               /\ StockpileSeal(sp, spent) = {}
               /\ \E addr \in StockpileSeal(sp, made) : addr.opid # Opid(sp.stock.articles.genesis)

----------------------------------------------------------------------------
(* Properties of the pile *)

\* the seals a call of apply_operation supplied with the operation
SuppliedSeals(args) ==
    IF "defined_seals" \in DOMAIN args THEN args.defined_seals
    ELSE SealsOf(args.op.destructible)

IsPrefix(s, t) == Len(s) <= Len(t) /\ SubSeq(t, 1, Len(s)) = s

\* every entry of the one pile is in the other as it was; witnesses are only added
PileKept(before, after) ==
    /\ \A opid \in DOMAIN before.keep :
          opid \in DOMAIN after.keep /\ after.keep[opid] = before.keep[opid]
    /\ \A opid \in DOMAIN before.wit :
          opid \in DOMAIN after.wit /\ IsPrefix(before.wit[opid], after.wit[opid])

\* the pile of a receiver that consumed the consignment of a contract: for every operation
\* of the stream the seals supplied by the reader, and the witnesses of the sender
ReceiverPileKeeps(sender, receiver, stream, wallet) ==
    \A i \in DOMAIN StreamOps(stream) :
        LET op == StreamOps(stream)[i]
        IN /\ Opid(op) \in DOMAIN receiver.pile.keep
           /\ receiver.pile.keep[Opid(op)]
                 = sender.pile.keep[Opid(op)] \o Resolve(wallet, op.destructible)
           /\ PileRetrieve(receiver.pile, Opid(op)) = PileRetrieve(sender.pile, Opid(op))

----------------------------------------------------------------------------
(* Properties of issuing from the contract builder *)

----------------------------------------------------------------------------
(* Properties of the errors of Mound::issue *)

\* C22: Mound::issue returns ConsensusMismatch whenever params.consensus differs from the
\* mound's, whatever the other fields; otherwise, when the testnet flags differ,
\* TestnetMismatch for testnet parameters and MainnetMismatch for mainnet ones; otherwise
\* UnknownCodex(codex_id) when no schema is registered under params.codex_id; and with every
\* error the mound, its schemata and its contracts, is as before the call.
C22_IssueErrorMapping ==
    [][last'.op = "issue"
       => /\ last'.args.consensus # mound.consensus
               => last'.res = Err("ConsensusMismatch", 0)
          /\ last'.args.consensus = mound.consensus /\ last'.args.testnet # mound.testnet
               => last'.res = Err(IF last'.args.testnet THEN "TestnetMismatch"
                                                       ELSE "MainnetMismatch", 0)
          /\ EnvMatches(mound, last'.args) /\ last'.args.codex_id \notin DOMAIN mound.schemata
               => last'.res = Err("UnknownCodex", last'.args.codex_id)
          /\ last'.res.kind = "Err"
               => /\ last'.res.err \in IssueErrors
                  /\ mound' = mound]_vars

\* a mound hosting a contract refused, with ConsensusMismatch, mainnet parameters for another
\* consensus and a codex it holds no schema of
C22_Witness ==
    /\ last.op = "issue"
    /\ last.res = Err("ConsensusMismatch", 0)
    /\ last.args.consensus # mound.consensus
    /\ last.args.testnet # mound.testnet
    /\ last.args.codex_id \notin DOMAIN mound.schemata
    /\ DOMAIN mound.contracts # {}

----------------------------------------------------------------------------
(* Properties of the contracts a mound hosts *)

\* C23: every key of the contracts map is the contract id of the stockpile stored under it,
\* after loading the mound and any issue, attest, consign and consume; and an issue that
\* returned Ok returned the key under which the new stockpile is stored.
C23_KeyedByContractId ==
    /\ \A k \in DOMAIN mound.contracts : k = StockpileContractId(mound.contracts[k])
    /\ last.op = "issue" /\ last.res.kind = "Ok"
          => /\ last.res.id \in DOMAIN mound.contracts
             /\ mound.contracts[last.res.id]
                   = StockpileIssue(mound.schemata[last.args.codex_id], last.args)

\* a mound loaded with a contract issued another one and returned its key
C23_Witness ==
    /\ last.op = "issue"
    /\ last.res.kind = "Ok"
    /\ Cardinality(DOMAIN mound.contracts) = MaxContracts
    /\ \E k \in DOMAIN mound.contracts :
          k # last.res.id /\ mound.contracts[k] \in StoredContracts

\* the consensus and the network an operation is bound to: those its contract id commits to
OpConsensus(op) == IF (op.contract_id[32] \div 4) % 2 = 0 THEN "Bitcoin" ELSE "Liquid"
OpTestnet(op) == (op.contract_id[32] \div 8) % 2 = 1

----------------------------------------------------------------------------
(* Building a state transition from construction to completion *)

\* the value written without the calculator and asked of it
BlankAmounts == {400}

\* the seal the outputs are assigned to, and the outputs spent
BlankSeals == {s \in GraphSeals : s.seal = 1}
SpentOpouts == {o \in Opouts : o.no = 0}

\* a builder nothing was added to, or none: where a new builder is constructed
Fresh(b) ==
    \/ ~b.live
    \/ b = TransitionBuilderWith(b.contract_id, b.transition_type, b.has_calc)

InitComplete ==
    /\ mound = OpenTestnet("Bitcoin", <<>>, <<>>)
    /\ last = NoCall
    /\ builder = NewBlankTransition(1).b
    /\ blast = TransitionCall("blank_transition", [contract_id |-> 1], NewBlankTransition(1))

BlankTransitionCall ==
    /\ Fresh(builder)
    /\ \E contract_id \in BuilderContractIds :
        TransitionReturned("blank_transition", [contract_id |-> contract_id],
                           NewBlankTransition(contract_id))

DefaultTransitionCall ==
    /\ Fresh(builder)
    /\ \E contract_id \in BuilderContractIds, iface \in Ifaces :
        TransitionReturned("default_transition", [contract_id |-> contract_id, iface |-> iface],
                           NewDefaultTransition(contract_id, iface))

NamedTransitionCall ==
    /\ Fresh(builder)
    /\ \E contract_id \in BuilderContractIds, name \in TransitionNames :
        TransitionReturned("named_transition", [contract_id |-> contract_id, name |-> name],
                           NewNamedTransition(contract_id, name))

SetNonceCall ==
    /\ builder.live
    /\ \E nonce \in Nonces :
          TransitionReturned("set_nonce", [nonce |-> nonce], SetNonce(builder, nonce))

AddInputOnce ==
    /\ builder.live
    /\ builder.added < MaxInputs
    /\ \E opout \in SpentOpouts, fails \in BOOLEAN :
          TransitionReturned("add_input", [opout |-> opout, value |-> 1000, fails |-> fails],
                             AddInput(builder, opout, 1000, fails))

TransitionAddMetadataCall ==
    /\ builder.live
    /\ Held(builder.meta) < MaxValues
    /\ \E name \in MetaNames, valid \in BOOLEAN, serialize \in BOOLEAN :
          TransitionReturned(IF serialize THEN "serialize_metadata" ELSE "add_metadata",
                             [name |-> name, valid |-> valid],
                             IF serialize THEN TransitionSerializeMetadata(builder, name, valid)
                             ELSE TransitionAddMetadata(builder, name, valid))

TransitionAddGlobalStateCall ==
    /\ builder.live
    /\ Held(builder.global) < MaxValues
    /\ \E name \in GlobalNames, valid \in BOOLEAN :
          TransitionReturned("add_global_state", [name |-> name, valid |-> valid],
                             TransitionAddGlobalState(builder, name, valid))

AddOwnedStateBlankCall ==
    /\ builder.live
    /\ Assigned(builder) < MaxAssignments
    /\ \E type_id \in AssignmentTypes, seal \in BlankSeals, value \in BlankAmounts :
          TransitionReturned("add_owned_state_blank",
                             [type_id |-> type_id, seal |-> seal, value |-> value],
                             AddOwnedStateBlank(builder, type_id, seal, Amount(value)))

FulfillOwnedStateOnce ==
    /\ builder.live
    /\ Assigned(builder) < MaxAssignments
    /\ \E type_id \in AssignmentTypes, seal \in BlankSeals, value \in BlankAmounts,
          fails \in BOOLEAN :
          TransitionReturned("fulfill_owned_state",
                             [type_id |-> type_id, seal |-> seal, value |-> value,
                              fails |-> fails],
                             FulfillOwnedState(builder, type_id, seal, value, fails))

AddOwnedStateChangeOnce ==
    /\ builder.live
    /\ Assigned(builder) < MaxAssignments
    /\ \E type_id \in AssignmentTypes, seal \in BlankSeals, fails \in BOOLEAN :
          TransitionReturned("add_owned_state_change",
                             [type_id |-> type_id, seal |-> seal, fails |-> fails],
                             AddOwnedStateChange(builder, type_id, seal, fails))

CompleteTransitionCall ==
    /\ builder.live
    /\ TransitionReturned("complete_transition",
                          [transition |-> CompleteTransition(builder).transition],
                          CompleteTransition(builder))

NextComplete ==
    \/ BlankTransitionCall
    \/ DefaultTransitionCall
    \/ NamedTransitionCall
    \/ SetNonceCall
    \/ AddInputOnce
    \/ TransitionAddMetadataCall
    \/ TransitionAddGlobalStateCall
    \/ AddOwnedStateBlankCall
    \/ FulfillOwnedStateOnce
    \/ AddOwnedStateChangeOnce
    \/ CompleteTransitionCall

SpecComplete == InitComplete /\ [][NextComplete]_vars

----------------------------------------------------------------------------
(* The assignments gathered by the builder in hand, of a contract or of a transition *)

IsContractBuilder(b) == "alt_layers1" \in DOMAIN b

IsTransitionBuilder(b) == "has_calc" \in DOMAIN b

\* ContractBuilder::with replaces the builder in hand, whatever it builds
BeginContract ==
    /\ With

\* TransitionBuilder::default_transition replaces the builder in hand
BeginTransition ==
    /\ \/ IsContractBuilder(builder)
       \/ builder # NewDefaultTransition(1, [default_operation |-> "transfer"]).b
    /\ TransitionReturned("default_transition",
                          [contract_id |-> 1, iface |-> [default_operation |-> "transfer"]],
                          NewDefaultTransition(1, [default_operation |-> "transfer"]))

TransitionAddRightsCall ==
    /\ builder.live
    /\ Assigned(builder) < MaxAssignments
    /\ \E name \in FieldNames, seal \in GraphSeals, attach \in BOOLEAN :
          TransitionReturned("add_rights", [name |-> name, seal |-> seal, attach |-> attach],
                             TransitionAddRights(builder, name, seal, attach))

AssignToContract ==
    /\ IsContractBuilder(builder)
    /\ \/ AddLayer1Call
       \/ AddOwnedStateRawCall
       \/ AddRightsCall
       \/ AddOwnedStateCall

AssignToTransition ==
    /\ IsTransitionBuilder(builder)
    /\ \/ AddInputOnce
       \/ FulfillOwnedStateCall
       \/ TransitionAddRightsCall

NextAssign ==
    \/ BeginContract
    \/ BeginTransition
    \/ AssignToContract
    \/ AssignToTransition

SpecAssign == InitContractBuilder /\ [][NextAssign]_vars

----------------------------------------------------------------------------
(* Properties of the outputs written through the state calculator *)

\* the assignments a builder holds under a type, none when the type has no entry
AssignsOf(b, type_id) ==
    IF type_id \in DOMAIN b.assignments THEN b.assignments[type_id] ELSE <<>>

\* from builder before to builder after exactly one assignment was written: under type_id,
\* after those already there, to the seal and with the value given
WroteOne(before, after, type_id, seal, value) ==
    /\ AssignsOf(after, type_id)
           = Append(AssignsOf(before, type_id), [seal |-> seal, state |-> Amount(value)])
    /\ \A t \in AssignmentTypes \ {type_id} : AssignsOf(after, t) = AssignsOf(before, t)
    /\ DOMAIN after.assignments = DOMAIN before.assignments \cup {type_id}

\* C25: a successful fulfill_owned_state writes exactly one assignment of the type, carrying
\* the sufficient portion calc_output computed, also when a remainder is left, and returns
\* that remainder; a successful add_owned_state_change writes exactly one assignment carrying
\* the residual of calc_change when there is one and leaves the assignments as they were when
\* there is none; a call in which the calculator returned an error writes nothing.
C25_CalculatedOutputs ==
    [][/\ blast'.op = "fulfill_owned_state" /\ blast'.res = Built
          => /\ WroteOne(builder, builder', blast'.type_id, blast'.seal,
                         CalcOutput(builder.calc, blast'.type_id, blast'.value).sufficient)
             /\ blast'.insufficient
                    = CalcOutput(builder.calc, blast'.type_id, blast'.value).insufficient
       /\ blast'.op = "add_owned_state_change" /\ blast'.res = Built
          => IF CalcChange(builder.calc, blast'.type_id).change # 0
             THEN WroteOne(builder, builder', blast'.type_id, blast'.seal,
                           CalcChange(builder.calc, blast'.type_id).change)
             ELSE builder'.assignments = builder.assignments
       /\ blast'.op \in {"fulfill_owned_state", "add_owned_state_change"}
          /\ blast'.res = BuilderError("Calc", "")
          => builder'.assignments = builder.assignments
      ]_vars

\* 400 of the 1000 asked for were covered: one assignment of 400 was written and 600 came back
C25_Witness ==
    /\ blast.op = "fulfill_owned_state"
    /\ blast.res = Built
    /\ blast.value = 1000
    /\ blast.insufficient = 600
    /\ builder.registered[blast.type_id] = 400
    /\ AssignsOf(builder, blast.type_id) = <<[seal |-> blast.seal, state |-> Amount(400)]>>

----------------------------------------------------------------------------
(* Properties of completing a state transition *)

TransitionConstructors == {"blank_transition", "default_transition", "named_transition"}

\* C26: complete_transition returns a transition with the contract id and the transition
\* type the builder was constructed with, the nonce of the last set_nonce or u64::MAX when
\* there was none, as inputs exactly the opouts add_input was called with, the global state
\* and the assignments the builder gathered, and empty metadata, valencies, witness and
\* validator, whatever add_metadata or serialize_metadata added.
C26_CompletedTransition ==
    [][/\ blast'.op = "complete_transition"
          => /\ blast'.res = Built
             /\ blast'.transition.contract_id = builder.contract_id
             /\ blast'.transition.transition_type = builder.transition_type
             /\ blast'.transition.nonce = builder.nonce
             /\ blast'.transition.inputs = builder.passed
             /\ blast'.transition.globals = builder.global
             /\ blast'.transition.assignments = builder.assignments
             /\ blast'.transition.metadata = <<>>
             /\ blast'.transition.valencies = {}
             /\ blast'.transition.witness = <<>>
             /\ blast'.transition.validator = <<>>
       /\ blast'.op \in TransitionConstructors /\ blast'.res = Built
          => builder'.contract_id = blast'.contract_id /\ builder'.nonce = U64Max
       /\ blast'.op = "set_nonce" => builder'.nonce = blast'.nonce
       /\ blast'.op \notin TransitionConstructors \cup {"set_nonce"}
          => builder'.nonce = builder.nonce
       /\ blast'.op \notin TransitionConstructors
          => /\ builder'.contract_id = builder.contract_id
             /\ builder'.transition_type = builder.transition_type
      ]_vars

\* a transition for contract 2 completed after set_nonce(7), an input, a global state value,
\* an assignment and a metadata value: the metadata the builder holds is not in the transition
C26_Witness ==
    /\ blast.op = "complete_transition"
    /\ blast.transition.contract_id = 2
    /\ blast.transition.nonce = <<0, 0, 0, 7>>
    /\ Cardinality(blast.transition.inputs) = 1
    /\ blast.transition.globals # <<>>
    /\ blast.transition.assignments # <<>>
    /\ Held(builder.meta) = 1
    /\ blast.transition.metadata = <<>>

----------------------------------------------------------------------------
(* Properties of the optional state calculator of a transition builder *)

\* C27: a builder made by blank_transition has no calculator and the type BLANK, one made by
\* default_transition or named_transition has a calculator; no method changes whether there
\* is one; fulfill_owned_state and add_owned_state_change abort exactly when there is none;
\* add_input and add_owned_state_blank never abort, and without a calculator they succeed,
\* add_input registering the state with the calculator only when there is one.
C27_OptionalCalculator ==
    [][/\ blast'.op = "blank_transition"
          => /\ blast'.res = Built
             /\ ~builder'.has_calc
             /\ builder'.transition_type = TransitionTypeBlank
       /\ blast'.op \in {"default_transition", "named_transition"} /\ blast'.res = Built
          => builder'.has_calc
       /\ blast'.op \notin TransitionConstructors => builder'.has_calc = builder.has_calc
       /\ blast'.op \in {"fulfill_owned_state", "add_owned_state_change"}
          => (blast'.res.kind = "Abort" <=> ~builder.has_calc)
       /\ blast'.op \in {"add_input", "add_owned_state_blank"}
          => /\ blast'.res.kind # "Abort"
             /\ ~builder.has_calc => blast'.res = Built
       /\ blast'.op = "add_input" /\ blast'.res = Built
          => /\ builder'.calc = IF builder.has_calc
                                THEN RegInput(builder.calc, blast'.opout.ty, blast'.value)
                                ELSE builder.calc
             /\ blast'.opout \in DOMAIN builder'.inputs
       /\ blast'.op = "add_owned_state_blank"
          => /\ WroteOne(builder, builder', blast'.type_id, blast'.seal, blast'.value)
             /\ builder'.calc = builder.calc
      ]_vars

\* a builder made by blank_transition took an input and an output and then aborted on
\* fulfill_owned_state
C27_Witness ==
    /\ blast.op = "fulfill_owned_state"
    /\ blast.res.kind = "Abort"
    /\ ~builder.has_calc
    /\ builder.transition_type = TransitionTypeBlank
    /\ builder.added = 1
    /\ Cardinality(DOMAIN builder.inputs) = 1
    /\ Assigned(builder) = 1

----------------------------------------------------------------------------
(* Properties of choosing the type of a state transition *)

\* what named_transition returns for every name, and default_transition when it succeeds
NamedTransitionChecked ==
    /\ blast.op = "named_transition"
       => /\ blast.res = BuilderError("TransitionNotFound", blast.name)
             <=> IimplTransitionType(blast.name) = 0
          /\ IimplTransitionType(blast.name) # 0
             => /\ blast.res = Built
                /\ builder.live
                /\ builder.transition_type = IimplTransitionType(blast.name)
    /\ blast.op = "default_transition" /\ blast.res = Built
       => /\ builder.live
          /\ builder.transition_type = IimplTransitionType(blast.iface.default_operation)
          /\ builder.transition_type # 0
    /\ blast.op = "default_transition"
       => blast.res \in {Built, BuilderError("NoOperationSubtype", "")}

----------------------------------------------------------------------------
(* Properties of the order of the assignments of a builder *)

\* from builder before to builder after one assignment to the seal was put after those the
\* type had, which stay as they were, and no other type was touched
PutLast(before, after, type_id, seal) ==
    /\ Len(AssignsOf(after, type_id)) = Len(AssignsOf(before, type_id)) + 1
    /\ SubSeq(AssignsOf(after, type_id), 1, Len(AssignsOf(before, type_id)))
           = AssignsOf(before, type_id)
    /\ AssignsOf(after, type_id)[Len(AssignsOf(after, type_id))].seal = seal
    /\ \A t \in AssignmentTypes \ {type_id} : AssignsOf(after, t) = AssignsOf(before, t)

\* the type a successful call writes under
WrittenType(call) ==
    IF call.op \in {"add_rights", "add_owned_state"} THEN IimplAssignmentType(call.name)
    ELSE call.type_id

\* C29: every successful add_owned_state_raw, add_owned_state, add_rights and
\* fulfill_owned_state puts its assignment after those already stored under its type, which
\* keep their order, also when an equal assignment is already there, and leaves the list of
\* every other type as it was; so each list is the assignments added for the type, in the
\* order of the calls.
C29_AssignmentsKeepCallOrder ==
    [][/\ blast'.op \in {"add_owned_state_raw", "add_owned_state", "add_rights",
                         "fulfill_owned_state"}
          /\ blast'.res = Built
          => PutLast(builder, builder', WrittenType(blast'), blast'.seal)
       /\ blast'.op \in {"add_layer1", "add_input"} /\ blast'.res = Built
          => builder'.assignments = builder.assignments
      ]_vars

\* add_rights was called twice on a contract builder with the same name and seal: the type
\* holds the assignment twice
C29_Witness ==
    /\ IsContractBuilder(builder)
    /\ blast.op = "add_rights"
    /\ blast.res = Built
    /\ Len(AssignsOf(builder, IimplAssignmentType(blast.name))) = 2
    /\ AssignsOf(builder, IimplAssignmentType(blast.name))[1]
           = AssignsOf(builder, IimplAssignmentType(blast.name))[2]

----------------------------------------------------------------------------
(* The operation reader and the witness reader taking turns over a consignment *)

\* the stockpiles whose consignments are read: the stored contract of the Bitcoin testnet,
\* its genesis attested by no, one or two witnesses
ReaderSender ==
    StoredContract([codex_id |-> 1, consensus |-> "Bitcoin", testnet |-> TRUE,
                    owned |-> <<Alt(1)>>, global |-> <<>>, names |-> <<"asset">>])
\* a contract whose transition has two outputs, of which its holder knows the seal of the
\* first only, attested by two witnesses
ReaderIssued ==
    StockpileIssue([codex_id |-> 1],
                   [codex_id |-> 1, consensus |-> "Bitcoin", testnet |-> TRUE,
                    owned |-> <<Alt(1)>>, global |-> <<>>, names |-> <<"asset">>])
ReaderTransition ==
    Operation(StockpileContractId(ReaderIssued), 0,
              {CellAddr(Opid(ReaderIssued.stock.articles.genesis), 0)},
              <<SealAuthToken(1), SealAuthToken(2)>>)
ReaderSenderShared ==
    StockpileAttest(StockpileAttest(ApplyOperation(ReaderIssued, ReaderTransition, <<1>>),
                                    Opid(ReaderTransition), 1),
                    Opid(ReaderTransition), 2)

ReaderSenders ==
    {ReaderSender, ReaderSenderShared,
     StockpileAttest(ReaderSender, Opid(ReaderSender.stock.articles.genesis), 1),
     StockpileAttest(StockpileAttest(ReaderSender,
                                     Opid(ReaderSender.stock.articles.genesis), 1),
                     Opid(ReaderSender.stock.articles.genesis), 2)}

\* the readers at work: op is the call that returned last, phase tells whose turn it is
\* ("op": the operation reader, "wit": the witness reader) or how the reading ended, st is
\* what read_operation returned, count the witness count read for the record and read the
\* number of witnesses read for it
Readers(id, wallet, r) ==
    [op |-> "consume", phase |-> "op", id |-> id, wallet |-> wallet, r |-> r, first |-> TRUE,
     st |-> "", record |-> [op |-> <<>>, defined_seals |-> <<>>], left |-> 0, count |-> 0,
     read |-> 0, trace |-> <<>>, resolved |-> <<>>]

\* Stockpile::consume has decoded the articles header and made the operation reader
ReadersStart(sender, wallet, items) ==
    /\ DecodeAll(Stream(<<>>, items), HeaderTypes).st = "ok"
    /\ mound = OpenTestnet("Bitcoin", [c \in {1} |-> [codex_id |-> c]],
                           StockpileContractId(sender) :> StockpileOpen(sender.stock.articles))
    /\ last = Readers(StockpileContractId(sender), wallet,
                      DecodeAll(Stream(<<>>, items), HeaderTypes).r)

InitReader ==
    /\ \E sender \in ReaderSenders, wallet \in {{}, {2}, Seals} :
          \E t \in Tamperings(StockpileConsign(sender, AuthTokens, EmptyStream).items) :
              ReadersStart(sender, wallet,
                           Tamper(StockpileConsign(sender, AuthTokens, EmptyStream).items, t))
    /\ InitBuilder

\* OpReader::read_operation returned o to the verifier, which checks the operation before it
\* asks for the witnesses
ReadOperationReturned(o) ==
    /\ last' = [last EXCEPT !.op = "read_operation", !.r = o.r, !.st = o.st,
                            !.trace = o.trace, !.resolved = o.resolved,
                            !.record = [op |-> o.op, defined_seals |-> o.defined_seals],
                            !.left = o.left, !.count = o.left, !.read = 0, !.first = FALSE,
                            !.phase = IF o.st = "none" THEN "done"
                                      ELSE IF o.st = "panic" THEN "panic"
                                      ELSE IF ~VerifyOperation(mound.contracts[last.id], o.op,
                                                               last.first, o.left)
                                      THEN "invalid"
                                      ELSE "wit"]
    /\ UNCHANGED <<mound, builder, blast>>

ReadOperationStep ==
    /\ last.phase = "op"
    /\ ReadOperationReturned(ReadOperation(last.r, last.wallet))

\* WitnessReader::read_witness returned w to the verifier, which applies the witness, or the
\* operation once the operation reader is handed back
ReadWitnessReturned(w) ==
    /\ last' = [last EXCEPT !.op = "read_witness", !.r = w.r, !.left = w.left,
                            !.read = IF w.st = "next" THEN @ + 1 ELSE @,
                            !.trace = IF last.left = 0 THEN <<>> ELSE <<"wit">>,
                            !.resolved = <<>>,
                            !.phase = IF w.st = "complete" THEN "op"
                                      ELSE IF w.st = "panic" THEN "panic" ELSE "wit"]
    /\ mound' = [mound EXCEPT !.contracts[last.id] =
                    IF w.st = "complete"
                    THEN ApplyOperation(@, last.record.op, last.record.defined_seals)
                    ELSE IF w.st = "next" THEN ApplyWitness(@, Opid(last.record.op), w.v)
                    ELSE @]
    /\ UNCHANGED <<builder, blast>>

ReadWitnessStep ==
    /\ last.phase = "wit"
    /\ ReadWitnessReturned(ReadWitness(last.r, last.left))

NextReader == ReadOperationStep \/ ReadWitnessStep

SpecReader == InitReader /\ [][NextReader]_vars

----------------------------------------------------------------------------
(* Properties of the order in which a consignment is read *)

\* read_operation returned the record at the head of the items: its operation, its defined
\* seals followed by the seals of the resolver, called once with the destructible cells of
\* the operation, and its witness count, read in this order
ReadRecordHead(items, wallet, after) ==
    /\ Len(items) >= 3
    /\ after.trace = <<"op", "seals", "seal_resolver", "count">>
    /\ after.record.op = items[1].v
    /\ after.resolved = <<items[1].v.destructible>>
    /\ after.record.defined_seals = items[2].v \o Resolve(wallet, items[1].v.destructible)
    /\ after.count = items[3].v
    /\ after.left = items[3].v
    /\ after.read = 0
    /\ after.r.items = SubSeq(items, 4, Len(items))

\* C30: read_operation decodes the operation, then its defined seals, calls the seal
\* resolver once with the destructible cells of the operation and puts the seals it returns
\* after those of the stream, then reads the witness count n; read_witness reads one witness
\* and lowers the count left by one while it is above zero, and hands the operation reader
\* back exactly when it is zero, so that exactly n witnesses are read before the next
\* operation is decoded.
C30_ReadersTakeTurns ==
    [][/\ last'.op = "read_operation"
          => /\ last.phase = "op"
             /\ last.op = "read_witness" => last.left = 0 /\ last.read = last.count
             /\ Len(last'.resolved) <= 1
             /\ last'.st = "some" => ReadRecordHead(last.r.items, last.wallet, last')
       /\ last'.op = "read_witness"
          => /\ last.phase = "wit"
             /\ last'.phase = "op" <=> last.left = 0
             /\ last.left = 0 => last'.r = last.r /\ last.read = last.count
             /\ last.left > 0 /\ last'.phase = "wit"
                => /\ last'.left = last.left - 1
                   /\ last'.read = last.read + 1
                   /\ Head(last.r.items).t = "wit"
                   /\ last'.r.items = Tail(last.r.items)
             /\ last.left + last.read = last.count
      ]_vars

\* the witness reader handed back the operation reader after the two witnesses of a record
\* whose seals are the one of the stream and, after it, the one the resolver gave
C30_Witness ==
    /\ last.op = "read_witness"
    /\ last.phase = "op"
    /\ last.count = 2
    /\ last.read = 2
    /\ last.left = 0
    /\ last.wallet = {2}
    /\ last.record.defined_seals = <<1, 2>>

----------------------------------------------------------------------------
(* Properties of the end of Stockpile::consume *)

\* the places of a call in the calls of consume
CallsOf(calls, name) == {i \in DOMAIN calls : calls[i] = name}

\* C31: in consume merge_articles is called only after every operation of the stream was
\* evaluated, and complete_update only after merge_articles succeeded: on Verify (as on every
\* failure of the reading) neither is called, on Merge merge_articles was called and
\* complete_update was not, on Ok both were, in this order and last.  The articles given to
\* merge_articles are the header values decoded from the stream with the genesis the stock
\* of the receiver held.
C31_MergeAfterEvaluation ==
    last.op = "receive"
    => /\ Cardinality(CallsOf(last.calls, "merge_articles")) <= 1
       /\ Cardinality(CallsOf(last.calls, "complete_update")) <= 1
       /\ \A i \in CallsOf(last.calls, "merge_articles") :
             /\ \A j \in 1..(i - 1) : last.calls[j] \in {"apply_operation", "apply_witness"}
             /\ CompleteRecords(last.args.stream.items)
                => Cardinality(CallsOf(last.calls, "apply_operation"))
                       = Len(StreamOps(last.args.stream))
             /\ ReceiverAfter.stock.stash
                    = SubSeq(StreamOps(last.args.stream), 2, 1 + Len(ReceiverAfter.stock.stash))
       /\ \A i \in CallsOf(last.calls, "complete_update") :
             i = Len(last.calls) /\ i > 1 /\ last.calls[i - 1] = "merge_articles"
       /\ (last.res.kind = "Ok") = (CallsOf(last.calls, "complete_update") # {})
       /\ (last.res \in {Ok(0), Err("Merge", 0)})
              = (CallsOf(last.calls, "merge_articles") # {})
       /\ last.res = Err("Merge", 0) => last.calls[Len(last.calls)] = "merge_articles"
       /\ Len(last.merged) = Cardinality(CallsOf(last.calls, "merge_articles"))
       /\ last.merged # <<>>
          => last.merged[1]
                 = [schema |-> last.args.stream.items[1].v,
                    contract_sigs |-> last.args.stream.items[2].v,
                    version |-> last.args.stream.items[3].v,
                    meta |-> last.args.stream.items[4].v,
                    codex |-> last.args.stream.items[5].v,
                    genesis |-> ReceiverBefore.stock.articles.genesis]

\* a consignment of two operations arrived with the codex of its header replaced: both were
\* applied, merge_articles was called with the codex of the stream and refused it, and
\* complete_update was not called
C31_Witness ==
    /\ last.op = "receive"
    /\ last.args.tamper.kind = "codex"
    /\ last.res = Err("Merge", 0)
    /\ Cardinality(CallsOf(last.calls, "apply_operation")) = 2
    /\ last.calls[Len(last.calls)] = "merge_articles"
    /\ CallsOf(last.calls, "complete_update") = {}
    /\ last.merged[1].codex = 2
    /\ last.merged[1].genesis = ReceiverBefore.stock.articles.genesis

----------------------------------------------------------------------------
(* Properties of reading a stockpile *)

----------------------------------------------------------------------------
(* Properties of the records consign writes and the readers read back *)

\* the readers of consume run over the records of a stream, nothing being verified: the
\* operations, seals and witnesses they return, or their abort
RECURSIVE WalkWitnesses(_, _), WalkRecords(_, _)
WalkWitnessesStep(w, walked) ==
    IF w.st = "panic" THEN [ok |-> FALSE, witnesses |-> <<>>, r |-> w.r]
    ELSE [walked EXCEPT !.witnesses = <<w.v>> \o @]
WalkWitnessesNext(w) ==
    IF w.st = "complete" THEN [ok |-> TRUE, witnesses |-> <<>>, r |-> w.r]
    ELSE IF w.st = "panic" THEN [ok |-> FALSE, witnesses |-> <<>>, r |-> w.r]
    ELSE WalkWitnessesStep(w, WalkWitnesses(w.r, w.left))
WalkWitnesses(r, left) == WalkWitnessesNext(ReadWitness(r, left))
WalkRecordsCons(o, ws, rest) ==
    [ok |-> rest.ok,
     recs |-> <<[op |-> o.op, defined_seals |-> o.defined_seals, count |-> o.left,
                 witnesses |-> ws.witnesses]>> \o rest.recs]
WalkRecordsWitnessed(o, ws, wallet) ==
    IF ~ws.ok THEN [ok |-> FALSE, recs |-> <<>>]
    ELSE WalkRecordsCons(o, ws, WalkRecords(ws.r, wallet))
WalkRecordsNext(o, wallet) ==
    IF o.st = "none" THEN [ok |-> TRUE, recs |-> <<>>]
    ELSE IF o.st = "panic" THEN [ok |-> FALSE, recs |-> <<>>]
    ELSE WalkRecordsWitnessed(o, WalkWitnesses(o.r, o.left), wallet)
WalkRecords(r, wallet) == WalkRecordsNext(ReadOperation(r, wallet), wallet)

\* the stream written by the last consign after its header, and the stockpile it was
\* written from
ConsignedRecords == SubSeq(last.out.items, HeaderLen + 1, Len(last.out.items))
Consigner == mound.contracts[last.args.contract_id]

\* C33: in the stream consign writes, every operation is followed by the seals the keep
\* store holds for it, by the number of witnesses the pile holds for it and by exactly these
\* witnesses; the readers of consume, counting the witnesses down, return every operation
\* with its own seals and witnesses and read nothing of the next record.
C33_RecordsAsPiled ==
    last.op = "consign" /\ last.res.kind = "Ok"
    => /\ ParseRecords(ConsignedRecords).ok
       /\ \A i \in DOMAIN ParseRecords(ConsignedRecords).recs :
             LET rec == ParseRecords(ConsignedRecords).recs[i]
             IN /\ rec[2].v = Consigner.pile.keep[Opid(rec[1].v)]
                /\ rec[3].v = Len(PileRetrieve(Consigner.pile, Opid(rec[1].v)))
                /\ Len(rec) = 3 + Len(PileRetrieve(Consigner.pile, Opid(rec[1].v)))
                /\ \A k \in 1..rec[3].v :
                      rec[3 + k] = Item("wit", PileRetrieve(Consigner.pile, Opid(rec[1].v))[k])
       /\ WalkRecords(Stream(<<>>, ConsignedRecords), {}).ok
       /\ LET walked == WalkRecords(Stream(<<>>, ConsignedRecords), {}).recs
          IN /\ Len(walked) = Len(StreamOps(last.out))
             /\ \A i \in DOMAIN walked :
                   /\ walked[i].op = StreamOps(last.out)[i]
                   /\ walked[i].defined_seals = Consigner.pile.keep[Opid(walked[i].op)]
                   /\ walked[i].count = Len(walked[i].witnesses)
                   /\ walked[i].witnesses = PileRetrieve(Consigner.pile, Opid(walked[i].op))

\* a consignment of three operations of which one has a witness and one has none
C33_Witness ==
    /\ last.op = "consign"
    /\ last.res.kind = "Ok"
    /\ Len(StreamOps(last.out)) = 3
    /\ \E i, j \in 1..3 :
          /\ PileRetrieve(Consigner.pile, Opid(StreamOps(last.out)[i])) # <<>>
          /\ PileRetrieve(Consigner.pile, Opid(StreamOps(last.out)[j])) = <<>>
----------------------------------------------------------------------------
(* A mound from any of its constructors as a state machine *)

\* the schemata a persistence holds
PersistedSchemata == [c \in {1} |-> [codex_id |-> c]]

InitNetwork ==
    /\ \/ mound = BitcoinTestnet
       \/ \E consensus \in ConsensusSet : mound = WithTestnet(consensus)
       \/ \E consensus \in ConsensusSet : mound = OpenTestnet(consensus, PersistedSchemata, <<>>)
       \/ \E consensus \in ConsensusSet, dir \in SUBSET StoredContracts :
             mound = LoadTestnet(consensus, PersistedSchemata, dir)
    /\ last = NoCall
    /\ InitBuilder

\* Mound::issue with parameters of one owned seal, for either consensus, network and codex
IssueNetwork ==
    IssueFrom({p \in CreateParamsSet(MoundMaxOwned) : p.owned \in {<<Alt(s)>> : s \in Seals}},
              MaxContracts)

NextNetwork == IssueNetwork \/ AttestHosted \/ Consign \/ ConsumeHosted

SpecNetwork == InitNetwork /\ [][NextNetwork]_vars

----------------------------------------------------------------------------
(* Properties of the network of a mound *)

\* C34: a mound from any public constructor is for the testnet and stays so; Mound::issue
\* never answers TestnetMismatch, refuses every parameters with testnet = false, with
\* MainnetMismatch when their consensus is the mound's, and a contract it adds is a testnet
\* contract
C34_MoundsAreTestnet ==
    /\ mound.testnet = TRUE
    /\ last.op = "issue" =>
          /\ last.res # Err("TestnetMismatch", 0)
          /\ ~last.args.testnet =>
                /\ last.res.kind = "Err"
                /\ last.args.consensus = mound.consensus => last.res = Err("MainnetMismatch", 0)
          /\ last.res.kind = "Ok" =>
                /\ last.res.id \in DOMAIN mound.contracts
                /\ mound.contracts[last.res.id].stock.articles.testnet = TRUE

\* a mound holding a schema refuses mainnet parameters for its consensus after it has issued
C34_Witness ==
    /\ last.op = "issue"
    /\ ~last.args.testnet
    /\ last.args.consensus = mound.consensus
    /\ last.args.codex_id \in DOMAIN mound.schemata
    /\ last.res = Err("MainnetMismatch", 0)
    /\ DOMAIN mound.contracts # {}
----------------------------------------------------------------------------
(* Properties of the inputs of a transition and the calculator *)

\* the sum of the states held for the opouts
RECURSIVE InputsSum(_, _)
InputsSum(inputs, opouts) ==
    IF opouts = {} THEN 0
    ELSE LET o == CHOOSE x \in opouts : TRUE
         IN inputs[o] + InputsSum(inputs, opouts \ {o})

\* the states of the inputs the transition will name, summed for the assignment type
TransitionInputsOf(b, type_id) ==
    InputsSum(b.inputs, {o \in DOMAIN b.inputs : o.ty = type_id})

\* C35, as stated: in a builder with a calculator, what add_input registered with the
\* calculator for an assignment type is the sum of the states of the distinct inputs of the
\* transition; an opout added twice is registered once.
C35_LedgerMatchesInputs ==
    builder.live /\ builder.has_calc =>
        \A type_id \in AssignmentTypes :
            builder.registered[type_id] = TransitionInputsOf(builder, type_id)

\* the same opout was added twice with 1000: the transition names one input of 1000 and the
\* calculator holds 2000
C35_Witness ==
    /\ builder.live /\ builder.has_calc
    /\ blast.op = "add_input" /\ blast.res = Built
    /\ builder.added = 2
    /\ DOMAIN builder.inputs = {blast.opout}
    /\ builder.inputs[blast.opout] = 1000
    /\ builder.registered[blast.opout.ty] = 2000
    /\ builder.calc[blast.opout.ty] = 2000
----------------------------------------------------------------------------
(* Properties of the contracts a mound hosts *)

\* C36, as stated: no step removes a hosted contract, and a successful Mound::issue that
\* returns an id already hosted leaves the stockpile stored under that id as it was, with
\* its operations and witnesses.
C36_HostedOnlyGrows ==
    [][/\ DOMAIN mound.contracts \subseteq DOMAIN mound'.contracts
       /\ (last'.op = "issue" /\ last'.res.kind = "Ok" /\ last'.res.id \in DOMAIN mound.contracts)
          => mound'.contracts[last'.res.id] = mound.contracts[last'.res.id]]_vars
----------------------------------------------------------------------------
(* Properties of Mound::consign for a contract that is not hosted *)

\* C37, as stated: Mound::consign for a contract id the mound does not host writes nothing
\* to the writer and reports the failure as an error value, not by aborting.
C37_UnknownConsignWritesNothing ==
    last.op = "consign" /\ ~HasContract(mound, last.args.contract_id) =>
        /\ last.out = EmptyStream
        /\ last.res.kind = "Err"

\* consign for a contract that is not hosted aborted after the magic, the version and the
\* contract id had been written
C37_Witness ==
    /\ last.op = "consign"
    /\ ~HasContract(mound, last.args.contract_id)
    /\ last.res = Abort("unknown contract")
    /\ last.out.bytes = MAGIC_BYTES_CONSIGNMENT \o <<0, 0>> \o last.args.contract_id
    /\ last.out.items = <<>>
----------------------------------------------------------------------------
(* Properties of the version of the envelope *)

\* the two bytes after the magic, when the stream holds them
VersionBytes(bytes) == SubSeq(bytes, 17, 18)

\* C38: after a correct magic, Mound::consume rejects every stream whose two version bytes
\* are not both zero with a decode error, whatever contract id follows, touching no stockpile;
\* and a stream it accepts has the version 0.
C38_VersionZeroOnly ==
    [][last'.op = "consume" /\ HasMagic(last'.args.stream.bytes)
           /\ Len(last'.args.stream.bytes) >= 18 =>
          /\ VersionBytes(last'.args.stream.bytes) # <<0, 0>> =>
                last'.res = Err("Decode", 0) /\ Untouched
          /\ last'.res.kind = "Ok" => VersionBytes(last'.args.stream.bytes) = <<0, 0>>]_vars

\* a consignment of a hosted contract, complete but for one version byte changed, was
\* rejected with a decode error
C38_Witness ==
    /\ last.op = "consume"
    /\ Len(last.args.stream.bytes) = 50
    /\ HasMagic(last.args.stream.bytes)
    /\ VersionBytes(last.args.stream.bytes) # <<0, 0>>
    /\ SubSeq(last.args.stream.bytes, 19, 50) \in DOMAIN mound.contracts
    /\ last.args.stream.items # <<>>
    /\ last.res = Err("Decode", 0)
    /\ last.touched = {}
----------------------------------------------------------------------------
(* Issuing a contract with metadata as a state machine *)

NextMetadata ==
    \/ With
    \/ AddMetadataCall
    \/ SerializeMetadataCall
    \/ AddGlobalStateCall
    \/ SetMainnetCall
    \/ AddLayer1Call
    \/ IssueContractDetCall
    \/ IssueContractCall

SpecMetadata == InitContractBuilder /\ [][NextMetadata]_vars

----------------------------------------------------------------------------
(* Properties of the genesis and what the builder was given *)

IssueMethods == {"issue_contract", "issue_contract_det"}

\* C39, as stated: the genesis that issue_contract and issue_contract_det produce holds the
\* metadata added to the builder, the builder's testnet flag and the layers added with
\* add_layer1.
C39_GenesisCarriesBuilder ==
    blast.op \in IssueMethods /\ blast.res = Built =>
        /\ blast.genesis.metadata = builder.meta
        /\ blast.genesis.testnet = builder.testnet
        /\ blast.genesis.alt_layers1 = builder.alt_layers1

\* a builder holding a metadata value, set to mainnet and given the Liquid layer, issued a
\* genesis with that flag and layer and with no metadata
C39_Witness ==
    /\ blast.op \in IssueMethods /\ blast.res = Built
    /\ Held(builder.meta) > 0
    /\ blast.genesis.metadata = <<>>
    /\ ~builder.testnet /\ ~blast.genesis.testnet
    /\ builder.alt_layers1 = {"Liquid"} /\ blast.genesis.alt_layers1 = {"Liquid"}
----------------------------------------------------------------------------
(* Properties of the length of the reading *)

\* the reading is over: the stream ended, a reader aborted or the verifier refused
ReadingEnded(l) == l.phase \in {"done", "panic", "invalid"}

\* what is left to do: two for every value left in the stream, and the turn of the reader
ReadingLeft(l) ==
    IF ReadingEnded(l) THEN 0
    ELSE 2 * Len(l.r.items) + (IF l.phase = "wit" THEN 2 ELSE 1)

\* C40: every read_operation either takes one whole record head (operation, seals, witness
\* count) off the stream or ends the reading; every read_witness that reads lowers the count
\* of the witnesses left and takes one witness off the stream, and hands back at zero; a
\* count above the witnesses present ends in an abort when the witness is missing; so what
\* is left to do shrinks with every step and the reading of a finite stream ends.
C40_ReadingTerminates ==
    [][/\ last'.op = "read_operation"
          => \/ ReadingEnded(last')
             \/ /\ last'.phase = "wit"
                /\ Len(last'.r.items) + 3 = Len(last.r.items)
       /\ last'.op = "read_witness"
          => \/ last'.phase = "panic" /\ last.left > 0
             \/ last'.phase = "op" /\ last.left = 0
             \/ /\ last'.phase = "wit"
                /\ last'.left < last.left
                /\ Len(last'.r.items) + 1 = Len(last.r.items)
       /\ (/\ last'.op = "read_witness"
           /\ last.left > 0
           /\ (last.r.items = <<>> \/ Head(last.r.items).t # "wit"))
          => last'.phase = "panic"
       /\ ~ReadingEnded(last)
       /\ ReadingLeft(last') < ReadingLeft(last)
      ]_vars

\* a record that announces two witnesses and is followed by one: the second read_witness found
\* the stream at its end and aborted
C40_Witness ==
    /\ last.op = "read_witness"
    /\ last.phase = "panic"
    /\ last.count = 2
    /\ last.read = 1
    /\ last.r.items = <<>>

====
